---- MODULE Spec2Model ----
(***************************************************************************)
(* A model of the CRISPR screen scoring pipeline of process_experiments.py. *)
(* The pipeline is a batch program whose stages are pure functions of       *)
(* tables; every stage is modelled as an operator computed the way the      *)
(* code computes it and applied by an action.  Each group of stages has a   *)
(* specification of its own whose Init draws the stage's inputs from        *)
(* bounded sets:                                                            *)
(*   SpecMerge      count loading and merging                               *)
(*   Spec           filtering, scoring and replicate averaging              *)
(*   SpecGeneScore  applyGeneScoreFunction, the gene statistics             *)
(*   SpecGenes      the pseudogenes, the gene table and the end of the run  *)
(*   SpecFunctions  filterLowCounts, computePhenotypeScore,                 *)
(*                  applyGeneScoreFunction and readLibraryFile called alone *)
(*   SpecPipeline   a whole run from the parsing of the config files, with  *)
(*                  its directories, files, plot settings and plots         *)
(***************************************************************************)
EXTENDS Integers, Sequences, FiniteSets, TLC

(***************************************************************************)
(* Bounds of the model.                                                     *)
(***************************************************************************)
NumGuides == 2
NumFiles == 2
MaxCount == 2
MaxRecords == 2
MaxList == 3

(***************************************************************************)
(* Generic helpers.                                                         *)
(***************************************************************************)
RECURSIVE GCD(_, _)
GCD(a, b) == IF b = 0 THEN a ELSE GCD(b, a % b)

Abs(n) == IF n < 0 THEN -n ELSE n

RECURSIVE Pow(_, _)
Pow(b, e) == IF e = 0 THEN 1 ELSE b * Pow(b, e - 1)

RECURSIVE RootFrom(_, _)
RootFrom(n, r) == IF r * r >= n THEN r ELSE RootFrom(n, r + 1)

IsSquare(n) == RootFrom(n, 0) * RootFrom(n, 0) = n

(***************************************************************************)
(* Floating-point values as the tables hold them.  A value is the missing   *)
(* value NaN, an infinity, an exact rational p/q ("num": counts, and the    *)
(* scores the gene statistics are computed from) or log2(p/q)/d ("log2":    *)
(* a phenotype score, kept exact).  Every operation propagates NaN and the  *)
(* infinities as IEEE arithmetic does; numpy divides by zero without        *)
(* raising.                                                                 *)
(***************************************************************************)
NaN == [kind |-> "nan"]
PosInf == [kind |-> "inf", s |-> 1]
NegInf == [kind |-> "inf", s |-> -1]

Num(n, d) ==
    LET g == GCD(Abs(n), d)
    IN  [kind |-> "num", p |-> n \div g, q |-> d \div g]

Whole(n) == [kind |-> "num", p |-> n, q |-> 1]

IsNaN(x) == x.kind = "nan"
IsInf(x) == x.kind = "inf"
IsNum(x) == x.kind = "num"
IsLog(x) == x.kind = "log2"

\* log2(p/q)/d in a normal form: p/q in lowest terms, no square left under an
\* even d, and log2(1) = 0 written with d = 1.
RECURSIVE Log(_, _, _)
Log(p, q, d) ==
    LET g == GCD(p, q)
        a == p \div g
        b == q \div g
    IN  IF a = b THEN [kind |-> "log2", p |-> 1, q |-> 1, d |-> 1]
        ELSE IF d % 2 = 0 /\ IsSquare(a) /\ IsSquare(b)
        THEN Log(RootFrom(a, 0), RootFrom(b, 0), d \div 2)
        ELSE [kind |-> "log2", p |-> a, q |-> b, d |-> d]

\* The number 0 as a log-ratio: log2(1).
LogZero == [kind |-> "log2", p |-> 1, q |-> 1, d |-> 1]

\* x < y, false as soon as one side is NaN.
FLess(x, y) ==
    IF IsNaN(x) \/ IsNaN(y) THEN FALSE
    ELSE IF IsInf(x) THEN x.s = -1 /\ ~(IsInf(y) /\ y.s = -1)
    ELSE IF IsInf(y) THEN y.s = 1
    ELSE IF IsNum(x) THEN x.p * y.q < y.p * x.q
    ELSE Pow(x.p, y.d) * Pow(y.q, x.d) < Pow(y.p, x.d) * Pow(x.q, y.d)

FAdd(x, y) ==
    IF IsNaN(x) \/ IsNaN(y) THEN NaN
    ELSE IF IsInf(x) THEN (IF IsInf(y) /\ y.s # x.s THEN NaN ELSE x)
    ELSE IF IsInf(y) THEN y
    ELSE IF IsNum(x) THEN Num(x.p * y.q + y.p * x.q, x.q * y.q)
    ELSE LET m == (x.d * y.d) \div GCD(x.d, y.d)
         IN  Log(Pow(x.p, m \div x.d) * Pow(y.p, m \div y.d),
                 Pow(x.q, m \div x.d) * Pow(y.q, m \div y.d), m)

FNeg(x) ==
    IF IsNaN(x) THEN NaN
    ELSE IF IsInf(x) THEN [kind |-> "inf", s |-> -x.s]
    ELSE IF IsNum(x) THEN Num(-x.p, x.q)
    ELSE Log(x.q, x.p, x.d)

\* x / k for a number k > 0 of the configuration.
FDivInt(x, k) ==
    IF IsNaN(x) \/ IsInf(x) THEN x
    ELSE IF IsNum(x) THEN Num(x.p, x.q * k)
    ELSE Log(x.p, x.q, x.d * k)

\* np.log2 of a ratio that is NaN, +inf or a rational >= 0.
FLog2(y) ==
    IF IsNaN(y) \/ IsInf(y) THEN y
    ELSE IF y.p = 0 THEN NegInf
    ELSE Log(y.p, y.q, 1)

\* x * y and x / y on NaN, +inf and rationals >= 0.
FMul(x, y) ==
    IF IsNaN(x) \/ IsNaN(y) THEN NaN
    ELSE IF IsInf(x) THEN (IF IsNum(y) /\ y.p = 0 THEN NaN ELSE x)
    ELSE IF IsInf(y) THEN (IF x.p = 0 THEN NaN ELSE y)
    ELSE Num(x.p * y.p, x.q * y.q)

FDiv(x, y) ==
    IF IsNaN(x) \/ IsNaN(y) THEN NaN
    ELSE IF IsInf(x) THEN (IF IsInf(y) THEN NaN ELSE x)
    ELSE IF IsInf(y) THEN Whole(0)
    ELSE IF y.p = 0 THEN (IF x.p = 0 THEN NaN ELSE PosInf)
    ELSE Num(x.p * y.q, x.q * y.p)

RECURSIVE FSum(_)
FSum(q) ==
    IF q = <<>> THEN Whole(0)
    ELSE IF Tail(q) = <<>> THEN Head(q)
    ELSE FAdd(Head(q), FSum(Tail(q)))

DropNa(q) == SelectSeq(q, LAMBDA x : ~IsNaN(x))

\* The values of column f over the guides of S, in index order.
RECURSIVE ColumnSeq(_, _)
ColumnSeq(f, S) ==
    IF S = {} THEN <<>>
    ELSE LET g == CHOOSE x \in S : \A y \in S : x <= y
         IN  <<f[g]>> \o ColumnSeq(f, S \ {g})

Range(s) == {s[i] : i \in DOMAIN s}

SeqsUpTo(S, n) == UNION {[1..k -> S] : k \in 0..n}

RECURSIVE SeqTotal(_)
SeqTotal(q) == IF q = <<>> THEN 0 ELSE Head(q) + SeqTotal(Tail(q))

RECURSIVE SumSet(_, _)
SumSet(f, S) ==
    IF S = {} THEN 0
    ELSE LET x == CHOOSE y \in S : TRUE
         IN  f[x] + SumSet(f, S \ {x})

(***************************************************************************)
(* Count loading and merging.                                               *)
(* Guides are the ids of the sublibrary-filtered library table; ExtraId is  *)
(* an id that occurs in counts files but not in the library.  A counts file *)
(* is the sequence of its (id, counts) records.                             *)
(***************************************************************************)
Guides == 1..NumGuides
ExtraId == 0
FileIds == Guides \cup {ExtraId}
Files == 1..NumFiles
Conditions == {"T0", "treated"}
MergeReplicates == {"Rep1"}
Triples == Conditions \X MergeReplicates \X Files

VARIABLES
    pc,                 \* position of the run in its specification
    counts_file_list,   \* exptParameters['counts_file_list']
    countsFiles,        \* the records of every counts file
    countsTable,        \* raw counts, one column per (condition, replicate, file)
    mergedCountsTable,  \* one column per (condition, replicate)
    exptCountsTable,    \* raw table returned by mergeCountsForExperiments
    exptsTable,         \* merged table returned by mergeCountsForExperiments
    libraryTable,       \* libraryTable[sublibColumn]: gene, transcripts, sequence
    filter_type,        \* exptParameters['filter_type']
    minimum_reads,      \* exptParameters['minimum_reads']
    pseudocount_behavior, \* exptParameters['pseudocount_behavior']
    pseudocount,        \* exptParameters['pseudocount']
    growthValueDict,    \* growth value of every (phenotype, replicate)
    filtCols,           \* filterLowCounts' result for every (phenotype, replicate)
    countsPseudo,       \* combinedCountsPseudo of every (phenotype, replicate)
    phenotypeScoreDict, \* score column of every (phenotype, replicate)
    phenotypeTable,     \* pd.DataFrame(phenotypeScoreDict), as written
    resultTable,        \* the table averagePhenotypeScores returns
    groupedPhenotypeTable, \* applyGeneScoreFunction: the rows of every group
    negativeTable,      \* applyGeneScoreFunction: the negative-control rows
    analysis,           \* applyGeneScoreFunction: the analysis name
    analysisParamList,  \* applyGeneScoreFunction: the analysis parameters
    result,             \* the table applyGeneScoreFunction returns
    generate_pseudogene_dist, \* exptParameters['generate_pseudogene_dist']
    num_pseudogenes,    \* exptParameters['num_pseudogenes']
    pseudogene_size,    \* exptParameters['pseudogene_size']
    analyses,           \* exptParameters['analyses']: name -> parameter list
    collapse_to_transcripts, \* exptParameters['collapse_to_transcripts']
    libraryTableGeneAnalysis, \* the library table with the pseudogene rows
    geneTable,          \* the gene table, as written
    geneTableCollapsed, \* the collapsed gene table, as written
    generatePlots,      \* the generatePlots argument of the run
    inputColumns,       \* a call of a function alone: its two count columns
    filterResults,      \* filterLowCounts' outcome for every threshold tried
    scoreResult,        \* computePhenotypeScore's outcome
    libraryFastaFile,   \* readLibraryFile: the lines of the file
    libraryFileResult,  \* readLibraryFile's outcome
    libraryConfig,      \* outcome of parseLibraryConfig: "ok" or "ValueError"
    parseStatus,        \* the status parseExptConfig returns
    librarySublibraries, \* the sublibrary column of the library file read
    sublibraries,       \* exptParameters['sublibraries']
    directories,        \* the directories makeDirectory was called with
    files,              \* every file written by to_csv: name -> table
    plotDirectory,      \* screen_analysis.plotDirectory
    imageExtension,     \* screen_analysis.imageExtension
    plotWithPylab,      \* screen_analysis.plotWithPylab
    settingsCalls,      \* number of calls of changeDisplayFigureSettings
    plotCalls           \* the plotting calls, each with the settings it found

mergeVars == <<counts_file_list, countsFiles, countsTable, exptCountsTable, exptsTable>>

scoreConfig == <<libraryTable, filter_type, minimum_reads, pseudocount_behavior,
                 pseudocount, growthValueDict>>

scoreVars == <<filtCols, countsPseudo, phenotypeScoreDict, phenotypeTable, resultTable>>

geneVars == <<groupedPhenotypeTable, negativeTable, analysis, analysisParamList, result>>

tailVars == <<generate_pseudogene_dist, num_pseudogenes, pseudogene_size, analyses,
              collapse_to_transcripts, libraryTableGeneAnalysis, geneTable,
              geneTableCollapsed, generatePlots>>

funcVars == <<inputColumns, filterResults, scoreResult, libraryFastaFile,
              libraryFileResult>>

startVars == <<libraryConfig, parseStatus, librarySublibraries, sublibraries,
               directories>>

settingsVars == <<plotDirectory, imageExtension, plotWithPylab, settingsCalls>>

runVars == <<startVars, files, settingsVars, plotCalls>>

vars == <<pc, mergeVars, mergedCountsTable, scoreConfig, scoreVars, geneVars, tailVars,
          funcVars, runVars>>

\* Python's None.
None == "None"

\* The plot settings of screen_analysis as the module is imported
\* (plotDirectory = None, imageExtension = 'png', plotWithPylab = True).
SettingsAtImport ==
    /\ plotDirectory = None
    /\ imageExtension = "png"
    /\ plotWithPylab = TRUE
    /\ settingsCalls = 0

\* The variables of the start of a run and of its files and plots, while
\* stages are modelled without the start of the run and without plots.
RunIdle ==
    /\ libraryConfig = "ok"
    /\ parseStatus = 0
    /\ librarySublibraries = <<>>
    /\ sublibraries = {}
    /\ directories = {}
    /\ files = <<>>
    /\ SettingsAtImport
    /\ plotCalls = {}

\* exptParameters['output_folder'] and the plot directory of line 55.
OutputFolder == "output"

PlotFolder == "output/ctx_plots"

\* An alternative of changeDisplayFigureSettings that keeps the defaults of
\* its keyword arguments.
changeDisplayFigureSettingsDefaults(newDirectory, newImageExtension, newPlotWithPylab) ==
    [plotDirectory |-> newDirectory, imageExtension |-> "png", plotWithPylab |-> TRUE]

\* screen_analysis.changeDisplayFigureSettings: the three globals after it.
changeDisplayFigureSettings(newDirectory, newImageExtension, newPlotWithPylab) ==
    [plotDirectory |-> newDirectory, imageExtension |-> newImageExtension,
     plotWithPylab |-> newPlotWithPylab]

\* table.to_csv(outbase + name): the file holds the table as it is now.
ToCsv(written, name, table) ==
    [n \in DOMAIN written \cup {name} |-> IF n = name THEN table ELSE written[n]]

\* countsTable.sum(axis=0)
ColumnTotals(table) == [t \in DOMAIN table |-> SumSet(table[t], DOMAIN table[t])]

\* The calls of one plotting function of screen_analysis, one for every key;
\* displayFigure reads the three settings when the figure is done.
PlotCalls(function, keys) ==
    {[function |-> function, key |-> k, plotDirectory |-> plotDirectory,
      imageExtension |-> imageExtension, plotWithPylab |-> plotWithPylab] : k \in keys}

\* The variables of the calls of a function alone, while a run is modelled.
FuncIdle ==
    /\ inputColumns = <<>>
    /\ filterResults = <<>>
    /\ scoreResult = <<>>
    /\ libraryFastaFile = <<>>
    /\ libraryFileResult = <<>>

\* The variables of applyGeneScoreFunction and of the gene stages, while the
\* run is in other stages.
GeneIdle ==
    /\ groupedPhenotypeTable = <<>>
    /\ negativeTable = <<>>
    /\ analysis = ""
    /\ analysisParamList = <<>>
    /\ result = <<>>

TailIdle ==
    /\ generate_pseudogene_dist = "off"
    /\ num_pseudogenes = 0
    /\ pseudogene_size = 0
    /\ analyses = <<>>
    /\ collapse_to_transcripts = FALSE
    /\ libraryTableGeneAnalysis = <<>>
    /\ geneTable = <<>>
    /\ geneTableCollapsed = <<>>
    /\ generatePlots = "off"

\* The variables of the scoring stages, while the run is in the merge stages.
ScoreIdle ==
    /\ libraryTable = <<>>
    /\ filter_type = ""
    /\ minimum_reads = 0
    /\ pseudocount_behavior = ""
    /\ pseudocount = 0
    /\ growthValueDict = <<>>
    /\ filtCols = <<>>
    /\ countsPseudo = <<>>
    /\ phenotypeScoreDict = <<>>
    /\ phenotypeTable = <<>>
    /\ resultTable = <<>>

\* readCountsFile followed by reset_index().drop_duplicates('id'): the counts
\* of the first record of each id.
FirstRecord(recs, id) ==
    LET i == CHOOSE j \in DOMAIN recs :
                 /\ recs[j][1] = id
                 /\ \A k \in 1..(j - 1) : recs[k][1] # id
    IN  recs[i][2]

HasId(recs, id) == \E j \in DOMAIN recs : recs[j][1] = id

\* The alignment with an outer join in the place of the left join.
AlignedColumnOuter(recs) ==
    [g \in Guides \cup {recs[j][1] : j \in DOMAIN recs} |->
        IF HasId(recs, g) THEN FirstRecord(recs, g) ELSE 0]

\* libraryTable[sublibColumn].align(countSeries, join='left', fill_value=0)[1]
AlignedColumn(recs) ==
    [g \in Guides |-> IF HasId(recs, g) THEN FirstRecord(recs, g) ELSE 0]

\* The duplicate test on neighbouring entries only.
HasAdjacentDuplicates(list) ==
    \E i \in DOMAIN list : i + 1 \in DOMAIN list /\ list[i] = list[i + 1]

\* if tup in columnDict: a triple that was already loaded.
HasDuplicates(list) ==
    \E i, j \in DOMAIN list : i # j /\ list[i] = list[j]

\* The loop over sorted(counts_file_list) that fills columnDict.
LoadCounts ==
    /\ pc = "start"
    /\ IF HasDuplicates(counts_file_list)
       THEN /\ pc' = "error"
            /\ UNCHANGED <<mergeVars, mergedCountsTable, files>>
       ELSE /\ pc' = "loaded"
            /\ countsTable' = [t \in Range(counts_file_list) |->
                                   AlignedColumn(countsFiles[t[3]])]
            /\ files' = ToCsv(ToCsv(files, "_rawcountstable.txt", countsTable'),
                              "_rawcountstable_summary.txt", ColumnTotals(countsTable'))
            /\ UNCHANGED <<counts_file_list, countsFiles, mergedCountsTable,
                           exptCountsTable, exptsTable>>
    /\ UNCHANGED <<scoreConfig, scoreVars, geneVars, tailVars>>
    /\ UNCHANGED funcVars
    /\ UNCHANGED <<startVars, settingsVars, plotCalls>>

\* countsTable.groupby(level=[0, 1], axis=1).aggregate(np.sum) with the sum
\* replaced by the first column of the group.
KeepFirstOnly(table) ==
    LET pairs == {<<t[1], t[2]>> : t \in DOMAIN table}
    IN  [p \in pairs |->
            LET t == CHOOSE u \in DOMAIN table : <<u[1], u[2]>> = p
            IN  table[t]]

\* countsTable.groupby(level=[0, 1], axis=1).aggregate(np.sum)
GroupSum(table) ==
    LET pairs == {<<t[1], t[2]>> : t \in DOMAIN table}
    IN  [p \in pairs |->
            [g \in Guides |->
                SumSet([t \in DOMAIN table |-> table[t][g]],
                       {t \in DOMAIN table : <<t[1], t[2]>> = p})]]

\* The groups of exptGroups with more than one column (lines 112-117).
MergedGroups(table) ==
    {p \in {<<t[1], t[2]>> : t \in DOMAIN table} :
        Cardinality({t \in DOMAIN table : <<t[1], t[2]>> = p}) > 1}

\* Lines 100-126: the merge, its two files and, with plots, the scatter
\* matrix of every merged group and the histogram of every merged column.
MergeCounts ==
    /\ pc = "loaded"
    /\ pc' = "merged"
    /\ mergedCountsTable' = GroupSum(countsTable)
    /\ files' = ToCsv(ToCsv(files, "_mergedcountstable.txt", mergedCountsTable'),
                      "_mergedcountstable_summary.txt", ColumnTotals(mergedCountsTable'))
    /\ plotCalls' =
           IF generatePlots # "off"
           THEN plotCalls
                    \cup PlotCalls("premergedCountsScatterMatrix", MergedGroups(countsTable))
                    \cup PlotCalls("countsHistogram", DOMAIN mergedCountsTable')
           ELSE plotCalls
    /\ UNCHANGED <<mergeVars, scoreConfig, scoreVars, geneVars, tailVars>>
    /\ UNCHANGED funcVars
    /\ UNCHANGED <<startVars, settingsVars>>

\* Preconditions of mergeCountsForExperiments on its experiment table: every
\* counts file is listed once (the files are the column keys of pd.concat) and
\* no file repeats an id (readCountsFile's result is concatenated as it is).
ExptTableOk(rows) ==
    /\ \A i, j \in DOMAIN rows : i # j => rows[i][3] # rows[j][3]
    /\ \A i \in DOMAIN rows :
           \A j, k \in DOMAIN countsFiles[rows[i][3]] :
               j # k => countsFiles[rows[i][3]][j][1] # countsFiles[rows[i][3]][k][1]

\* Index of pd.concat(countsCols, axis=1).align(libraryTable, axis=0)[0]: the
\* outer join of the ids of the files and of the library.
ExptIndex(rows) ==
    Guides \cup UNION {{countsFiles[rows[i][3]][j][1] :
                            j \in DOMAIN countsFiles[rows[i][3]]} : i \in DOMAIN rows}

\* One column per counts file, fillna(value=0).
ExptRawTable(rows) ==
    [f \in {rows[i][3] : i \in DOMAIN rows} |->
        [id \in ExptIndex(rows) |->
            IF HasId(countsFiles[f], id) THEN FirstRecord(countsFiles[f], id) ELSE 0]]

\* exptTuplesToRuns: the files of every (condition, replicate), in row order.
RunsOf(rows, tup) ==
    SelectSeq([i \in DOMAIN rows |-> rows[i][3]],
              LAMBDA f : \E i \in DOMAIN rows :
                             rows[i][3] = f /\ <<rows[i][1], rows[i][2]>> = tup)

\* The loop over sorted(exptTuplesToRuns.keys()): the first file's column plus,
\* with +=, the columns of the other files.
ExptColumns(rows) ==
    LET raw == ExptRawTable(rows)
    IN  [tup \in {<<rows[i][1], rows[i][2]>> : i \in DOMAIN rows} |->
            [id \in ExptIndex(rows) |->
                SumSet([f \in DOMAIN raw |-> raw[f][id]], Range(RunsOf(rows, tup)))]]

\* The raw table as returned.  column = countsTable[first] is the table's own
\* column when pandas hands out a view and a copy otherwise; column += ... then
\* writes the sum into the table or leaves it alone.
ExptRawAfter(rows, aliased) ==
    LET raw == ExptRawTable(rows)
        cols == ExptColumns(rows)
    IN  [f \in DOMAIN raw |->
            LET tup == CHOOSE t \in DOMAIN cols : f \in Range(RunsOf(rows, t))
            IN  IF aliased /\ Len(RunsOf(rows, tup)) > 1 /\ RunsOf(rows, tup)[1] = f
                THEN cols[tup]
                ELSE raw[f]]

MergeCountsForExperiments ==
    /\ pc = "start"
    /\ ExptTableOk(counts_file_list)
    /\ pc' = "exptsMerged"
    /\ exptsTable' = ExptColumns(counts_file_list)
    /\ \E aliased \in BOOLEAN :
           exptCountsTable' = ExptRawAfter(counts_file_list, aliased)
    /\ UNCHANGED <<counts_file_list, countsFiles, countsTable, mergedCountsTable,
                   scoreConfig, scoreVars, geneVars, tailVars>>
    /\ UNCHANGED funcVars
    /\ UNCHANGED runVars

InitMerge ==
    /\ pc = "start"
    /\ counts_file_list \in SeqsUpTo(Triples, MaxList) \ {<<>>}
    /\ countsFiles \in [Files -> SeqsUpTo(FileIds \X (1..MaxCount), MaxRecords)]
    /\ countsTable = <<>>
    /\ mergedCountsTable = <<>>
    /\ exptCountsTable = <<>>
    /\ exptsTable = <<>>
    /\ ScoreIdle
    /\ GeneIdle
    /\ TailIdle
    /\ FuncIdle
    /\ RunIdle

NextMerge == LoadCounts \/ MergeCounts \/ MergeCountsForExperiments

SpecMerge == InitMerge /\ [][NextMerge]_vars

(***************************************************************************)
(* Low-count filter and phenotype scores.                                   *)
(* A pair of count columns is a function from the guides to <<count of      *)
(* condition 1, count of condition 2>>.                                     *)
(***************************************************************************)
Min2(a, b) == IF b < a THEN b ELSE a
Max2(a, b) == IF b > a THEN b ELSE a

FilterTypes == {"both", "all", "either", "any"}

\* failFilterColumn with the test of 'either' used for every filter type.
FailFilterByMax(row, filterType, filterThreshold) ==
    Max2(row[1], row[2]) < filterThreshold

\* failFilterColumn with the comparison turned around.
FailFilterReversed(row, filterType, filterThreshold) ==
    IF filterType \in {"both", "all"}
    THEN Min2(row[1], row[2]) > filterThreshold
    ELSE Max2(row[1], row[2]) > filterThreshold

\* failFilterColumn: min(row) < filterThreshold or max(row) < filterThreshold.
FailFilter(row, filterType, filterThreshold) ==
    IF filterType \in {"both", "all"}
    THEN Min2(row[1], row[2]) < filterThreshold
    ELSE Max2(row[1], row[2]) < filterThreshold

\* resultTable.loc[failFilterColumn, :] = np.nan, on a copy of the columns.
filterLowCounts(countsColumns, filterType, filterThreshold) ==
    [g \in DOMAIN countsColumns |->
        IF FailFilter(countsColumns[g], filterType, filterThreshold)
        THEN <<NaN, NaN>>
        ELSE <<Whole(countsColumns[g][1]), Whole(countsColumns[g][2])>>]

PseudocountBehaviors == {"default", "zeros only", "all values", "filter out"}

\* The first cell of the row in the place of min(row).
RowFirst(row) == row[1]

\* Python's min(row) on a row of two cells: the second cell only if it
\* compares less than the first.
RowMin(row) == IF FLess(row[2], row[1]) THEN row[2] ELSE row[1]

\* row + pseudocountValue with a missing cell counted as 0.
AddPseudocountNaAsZero(row, pseudocountValue) ==
    <<IF IsNaN(row[1]) THEN Whole(pseudocountValue) ELSE FAdd(row[1], Whole(pseudocountValue)),
      IF IsNaN(row[2]) THEN Whole(pseudocountValue) ELSE FAdd(row[2], Whole(pseudocountValue))>>

\* row + pseudocountValue
AddPseudocount(row, pseudocountValue) ==
    <<FAdd(row[1], Whole(pseudocountValue)), FAdd(row[2], Whole(pseudocountValue))>>

\* combinedCountsPseudo of computePhenotypeScore.
CombinedCountsPseudo(combinedCounts, pseudocountBehavior, pseudocountValue) ==
    [g \in DOMAIN combinedCounts |->
        LET row == combinedCounts[g]
        IN  IF pseudocountBehavior \in {"default", "zeros only"}
            THEN IF RowMin(row) # Whole(0) THEN row
                 ELSE AddPseudocount(row, pseudocountValue)
            ELSE IF pseudocountBehavior = "all values"
            THEN AddPseudocount(row, pseudocountValue)
            ELSE IF ~IsNaN(RowMin(row)) /\ ~FLess(Whole(0), RowMin(row))
                 THEN <<NaN, NaN>>
                 ELSE row]

\* combinedCountsPseudo.sum(): the missing cells are skipped.
TotalCounts(countsCols, i) ==
    FSum(DropNa(ColumnSeq([g \in DOMAIN countsCols |-> countsCols[g][i]],
                          DOMAIN countsCols)))

\* float(totalCounts[0])/totalCounts[1]
CountsRatio(countsCols) == FDiv(TotalCounts(countsCols, 1), TotalCounts(countsCols, 2))

\* calcLog2e(row, countsRatio, growthValue, wtLog2E)
calcLog2e(row, countsRatio, growthValue, wtLog2E) ==
    FDivInt(FAdd(FLog2(FDiv(FMul(countsRatio, row[2]), row[1])), FNeg(wtLog2E)),
            growthValue)

\* The values of q in ascending order (q holds no NaN).
RECURSIVE FSorted(_)
FSorted(q) ==
    IF q = <<>> THEN <<>>
    ELSE LET i == CHOOSE j \in DOMAIN q : \A k \in DOMAIN q : ~FLess(q[k], q[j])
         IN  <<q[i]>> \o FSorted(SubSeq(q, 1, i - 1) \o SubSeq(q, i + 1, Len(q)))

\* Series.median(): the middle value of the non-missing values, the mean of the
\* two middle values when their number is even, NaN when there is none.
Median(q) ==
    LET v == FSorted(DropNa(q))
        n == Len(v)
    IN  IF n = 0 THEN NaN
        ELSE IF n % 2 = 1 THEN v[(n + 1) \div 2]
        ELSE FDivInt(FAdd(v[n \div 2], v[n \div 2 + 1]), 2)

NegativeControls(library) ==
    {g \in DOMAIN library : library[g].gene = "negative_control"}

\* neglog2e with the median taken over every row.
NegLog2eAllGuides(countsCols, library) ==
    LET ratio == CountsRatio(countsCols)
    IN  Median(ColumnSeq([g \in DOMAIN countsCols |->
                             calcLog2e(countsCols[g], ratio, 1, LogZero)],
                         DOMAIN countsCols))

\* neglog2e: the median of calcLog2e over the negative-control rows.
NegLog2e(countsCols, library) ==
    LET ratio == CountsRatio(countsCols)
        negs == NegativeControls(library) \cap DOMAIN countsCols
    IN  Median(ColumnSeq([g \in negs |-> calcLog2e(countsCols[g], ratio, 1, LogZero)],
                         negs))

\* computePhenotypeScore(counts1, counts2, libraryTable, growthValue,
\*                       pseudocountBehavior, pseudocountValue)
computePhenotypeScore(combinedCounts, library, growthValue, pseudocountBehavior, pseudocountValue) ==
    LET pseudo == CombinedCountsPseudo(combinedCounts, pseudocountBehavior,
                                       pseudocountValue)
        countsRatio == CountsRatio(pseudo)
        neglog2e == NegLog2e(pseudo, library)
    IN  [g \in DOMAIN pseudo |->
            calcLog2e(pseudo[g], countsRatio, growthValue, neglog2e)]

(***************************************************************************)
(* The scoring stages of processExperimentsFromConfig, from the merged      *)
(* counts table to the phenotype table.                                     *)
(***************************************************************************)
condition_tuples == {<<"rho", "T0", "treated">>}

\* replicateList: the replicate ids of the counts file list, which are those
\* of the merged columns.
replicateList == {k[2] : k \in DOMAIN mergedCountsTable}

phenotypeList == {t[1] : t \in condition_tuples}

ScoreKeys == {<<t[1], r>> : t \in condition_tuples, r \in replicateList}

ConditionsOf(phenotype) ==
    LET t == CHOOSE u \in condition_tuples : u[1] = phenotype
    IN  <<t[2], t[3]>>

\* pd.concat((column1, column2), axis=1) for a (phenotype, replicate)
CountColumns(key) ==
    [g \in DOMAIN libraryTable |->
        <<mergedCountsTable[<<ConditionsOf(key[1])[1], key[2]>>][g],
          mergedCountsTable[<<ConditionsOf(key[1])[2], key[2]>>][g]>>]

\* The loop over condition_tuples and replicateList (lines 137-150).
ComputeScores ==
    /\ pc = "merged"
    /\ IF \/ \E t \in condition_tuples, r \in replicateList :
                 <<t[2], r>> \notin DOMAIN mergedCountsTable
                     \/ <<t[3], r>> \notin DOMAIN mergedCountsTable
          \/ filter_type \notin FilterTypes
          \/ pseudocount_behavior \notin PseudocountBehaviors
       THEN /\ pc' = "error"
            /\ UNCHANGED <<scoreVars, plotCalls>>
       ELSE /\ pc' = "scored"
            /\ plotCalls' =
                   IF generatePlots # "off"
                   THEN plotCalls \cup PlotCalls("countsScatter", ScoreKeys)
                                 \cup PlotCalls("phenotypeHistogram", ScoreKeys)
                                 \cup PlotCalls("sgRNAsPassingFilterHist", ScoreKeys)
                   ELSE plotCalls
            /\ filtCols' = [k \in ScoreKeys |->
                   filterLowCounts(CountColumns(k), filter_type, minimum_reads)]
            /\ countsPseudo' = [k \in ScoreKeys |->
                   CombinedCountsPseudo(filtCols'[k], pseudocount_behavior, pseudocount)]
            /\ phenotypeScoreDict' = [k \in ScoreKeys |->
                   computePhenotypeScore(filtCols'[k], libraryTable, growthValueDict[k],
                                         pseudocount_behavior, pseudocount)]
            /\ UNCHANGED <<phenotypeTable, resultTable>>
    /\ UNCHANGED <<mergeVars, mergedCountsTable, scoreConfig, geneVars, tailVars>>
    /\ UNCHANGED funcVars
    /\ UNCHANGED <<startVars, files, settingsVars>>

\* 'ave_' + '_'.join(replicateList)
AveLabel(reps) ==
    IF reps = {"Rep1", "Rep2"} THEN "ave_Rep1_Rep2"
    ELSE IF reps = {"Rep1"} THEN "ave_Rep1"
    ELSE IF reps = {"Rep2"} THEN "ave_Rep2"
    ELSE "ave_"

\* The replicate ids in sorted order.
RepSeq(reps) ==
    IF reps = {"Rep1", "Rep2"} THEN <<"Rep1", "Rep2">>
    ELSE IF reps = {"Rep1"} THEN <<"Rep1">>
    ELSE IF reps = {"Rep2"} THEN <<"Rep2">>
    ELSE <<>>

\* DataFrame.mean(axis=1) with the missing values skipped.
MeanSkipNa(q) ==
    IF DropNa(q) = <<>> THEN NaN ELSE FDivInt(FSum(DropNa(q)), Len(DropNa(q)))

\* DataFrame.mean(axis=1, skipna=False)
MeanKeepNa(q) == IF q = <<>> THEN NaN ELSE FDivInt(FSum(q), Len(q))

\* repCols.mean(axis=1, skipna=False) over the replicate columns of a phenotype
AveragedColumn(scoreDict, phenotype, reps) ==
    [g \in DOMAIN libraryTable |->
        MeanKeepNa([i \in DOMAIN RepSeq(reps) |->
                       scoreDict[<<phenotype, RepSeq(reps)[i]>>][g]])]

\* The pairs of replicate columns of a phenotype with j > i (lines 186-197).
ReplicatePairs(reps) ==
    {<<RepSeq(reps)[q[1]], RepSeq(reps)[q[2]]>> :
        q \in {r \in (DOMAIN RepSeq(reps)) \X (DOMAIN RepSeq(reps)) : r[1] < r[2]}}

\* Averaging of the replicates, the phenotype table and its file (lines
\* 169-179), and with plots and several replicates the histogram of every
\* averaged column and the scatter of every pair of replicates.
AverageReplicates ==
    /\ pc = "scored"
    /\ pc' = "averaged"
    /\ phenotypeScoreDict' =
           IF Cardinality(replicateList) > 1
           THEN [k \in DOMAIN phenotypeScoreDict
                        \cup {<<ph, AveLabel(replicateList)>> : ph \in phenotypeList} |->
                    IF k \in DOMAIN phenotypeScoreDict THEN phenotypeScoreDict[k]
                    ELSE AveragedColumn(phenotypeScoreDict, k[1], replicateList)]
           ELSE phenotypeScoreDict
    /\ phenotypeTable' = phenotypeScoreDict'
    /\ files' = ToCsv(files, "_phenotypetable.txt", phenotypeTable')
    /\ plotCalls' =
           IF Cardinality(replicateList) > 1 /\ generatePlots # "off"
           THEN plotCalls
                    \cup PlotCalls("phenotypeHistogram",
                                   {<<ph, AveLabel(replicateList)>> : ph \in phenotypeList})
                    \cup PlotCalls("phenotypeScatter",
                                   {<<ph, pair[1], pair[2]>> :
                                       ph \in phenotypeList,
                                       pair \in ReplicatePairs(replicateList)})
           ELSE plotCalls
    /\ UNCHANGED <<mergeVars, mergedCountsTable, scoreConfig, filtCols, countsPseudo,
                   resultTable, geneVars, tailVars>>
    /\ UNCHANGED funcVars
    /\ UNCHANGED <<startVars, settingsVars>>

\* averagePhenotypeScores(scoreTable) on the table of the replicate scores, its
\* columns keyed (experiment, phenotype, replicate) with one experiment:
\* exptDf.mean(axis=1) over the replicate columns of every phenotype.
averagePhenotypeScores(scoreTable) ==
    LET expts == {k[1] : k \in DOMAIN scoreTable}
        repsOf(e) == {k[2] : k \in {j \in DOMAIN scoreTable : j[1] = e}}
    IN  [k \in {<<e, AveLabel(repsOf(e))>> : e \in expts} |->
            [g \in DOMAIN libraryTable |->
                MeanSkipNa([i \in DOMAIN RepSeq(repsOf(k[1])) |->
                               scoreTable[<<k[1], RepSeq(repsOf(k[1]))[i]>>][g]])]]

AveragePhenotypeScores ==
    /\ pc = "scored"
    /\ pc' = "returned"
    /\ resultTable' = averagePhenotypeScores(phenotypeScoreDict)
    /\ UNCHANGED <<mergeVars, mergedCountsTable, scoreConfig, filtCols, countsPseudo,
                   phenotypeScoreDict, phenotypeTable, geneVars, tailVars>>
    /\ UNCHANGED funcVars
    /\ UNCHANGED runVars

\* Bounds of the scoring runs: one replicate of NumScoreGuides guides with
\* every count up to MaxCount, or two replicates of one guide less with the
\* counts 0 and MaxCount.  The first guide targets a gene, the others are
\* negative controls.
NumScoreGuides == 3
MaxPseudocount == 1
MaxGrowth == 2

ScoreLibrary(n) ==
    [g \in 1..n |->
        [gene |-> IF g = 1 THEN "geneA" ELSE "negative_control",
         transcripts |-> "P1",
         sequence |-> g]]

MergedTables(n, reps, counts) ==
    [{"T0", "treated"} \X reps -> [1..n -> counts]]

Init ==
    /\ pc = "merged"
    /\ counts_file_list = <<>>
    /\ countsFiles = <<>>
    /\ countsTable = <<>>
    /\ exptCountsTable = <<>>
    /\ exptsTable = <<>>
    /\ \/ /\ libraryTable = ScoreLibrary(NumScoreGuides)
          /\ mergedCountsTable \in MergedTables(NumScoreGuides, {"Rep1"}, 0..MaxCount)
       \/ /\ libraryTable = ScoreLibrary(NumScoreGuides - 1)
          /\ mergedCountsTable \in
                 MergedTables(NumScoreGuides - 1, {"Rep1", "Rep2"}, {0, MaxCount})
       \/ /\ libraryTable = ScoreLibrary(NumScoreGuides - 1)
          /\ mergedCountsTable \in
                 [{<<"T0", "Rep1">>, <<"treated", "Rep1">>, <<"treated", "Rep2">>} ->
                     [1..(NumScoreGuides - 1) -> {0, MaxCount}]]
    /\ \E names \in (FilterTypes \X PseudocountBehaviors)
                         \cup {<<"bogus", "zeros only">>, <<"any", "bogus">>} :
           /\ filter_type = names[1]
           /\ pseudocount_behavior = names[2]
    /\ minimum_reads \in 1..(MaxCount + 1)
    /\ pseudocount \in 0..MaxPseudocount
    /\ \E gv \in 1..MaxGrowth : growthValueDict = [k \in ScoreKeys |-> gv]
    /\ filtCols = <<>>
    /\ countsPseudo = <<>>
    /\ phenotypeScoreDict = <<>>
    /\ phenotypeTable = <<>>
    /\ resultTable = <<>>
    /\ GeneIdle
    /\ TailIdle
    /\ FuncIdle
    /\ RunIdle

Next == ComputeScores \/ AverageReplicates \/ AveragePhenotypeScores

Spec == Init /\ [][Next]_vars

(***************************************************************************)
(* Gene aggregation: applyGeneScoreFunction, averageBestN and applyMW.      *)
(* A grouped table maps every group to its rows, a row maps every           *)
(* (phenotype, replicate) column to a score; the negative table is the      *)
(* sequence of the negative-control rows.                                   *)
(***************************************************************************)
\* abs(x) of a score.
FAbs(x) ==
    IF IsNaN(x) THEN NaN
    ELSE IF IsInf(x) THEN PosInf
    ELSE IF IsNum(x) THEN Num(Abs(x.p), x.q)
    ELSE IF FLess(x, LogZero) THEN FNeg(x) ELSE x

\* The comparison sorted(..., key=abs) makes: abs(a) < abs(b), false as soon
\* as one of them is NaN.
KeyLess(a, b) == FLess(FAbs(a), FAbs(b))

Reverse(q) == [i \in 1..Len(q) |-> q[Len(q) + 1 - i]]

\* list.sort, the run at the head of the list: the run goes on to position i
\* while every element compares to its predecessor as the first pair does.
RECURSIVE RunEnd(_, _, _)
RunEnd(q, i, descending) ==
    IF i > Len(q) THEN i - 1
    ELSE IF KeyLess(q[i], q[i - 1]) = descending THEN RunEnd(q, i + 1, descending)
    ELSE i - 1

\* list.sort, binary insertion: where the pivot goes among the l..r of the
\* sorted prefix, after every element it is not less than.
RECURSIVE InsertionPoint(_, _, _, _)
InsertionPoint(q, pivot, l, r) ==
    IF l >= r THEN l
    ELSE LET p == l + (r - l) \div 2
         IN  IF KeyLess(pivot, q[p + 1]) THEN InsertionPoint(q, pivot, l, p)
             ELSE InsertionPoint(q, pivot, p + 1, r)

RECURSIVE BinarySort(_, _)
BinarySort(q, start) ==
    IF start > Len(q) THEN q
    ELSE LET l == InsertionPoint(q, q[start], 0, start - 1)
         IN  BinarySort(SubSeq(q, 1, l) \o <<q[start]>> \o SubSeq(q, l + 1, start - 1)
                            \o SubSeq(q, start + 1, Len(q)),
                        start + 1)

\* sorted(q, key=abs, reverse=True) as the interpreter sorts a short list:
\* the list reversed, its leading run found (and reversed when descending),
\* the rest inserted by binary insertion, and the list reversed again.  The
\* comparisons with NaN are all false, the order of a list that holds NaN
\* follows from the positions.
SortedByAbsReverse(q) ==
    IF Len(q) < 2 THEN q
    ELSE LET r == Reverse(q)
             descending == KeyLess(r[2], r[1])
             n == RunEnd(r, 3, descending)
             run == IF descending
                    THEN Reverse(SubSeq(r, 1, n)) \o SubSeq(r, n + 1, Len(r))
                    ELSE r
         IN  Reverse(BinarySort(run, n + 1))

\* q[:n] and q[i] of a Python list; q[i] counts from the end for i < 0.
Prefix(q, n) == SubSeq(q, 1, Min2(n, Len(q)))

PyIndex(q, i) == IF i >= 0 THEN q[i + 1] ELSE q[Len(q) + i + 1]

\* q[i] raises IndexError outside the list.
PyIndexOk(q, i) == IF i >= 0 THEN i < Len(q) ELSE -i <= Len(q)

\* The column of a group: the scores of its rows in the column, in row order.
GroupColumn(group, column) == [i \in DOMAIN group |-> group[i][column]]

\* groupedPhenotypeTable.count(): the number of non-missing scores of every
\* column of every group.
GroupSize(q) == Len(q)

GroupCount(q) == Len(DropNa(q))

\* The columns of a group (a group has at least one row).
ColumnsOf(group) == DOMAIN group[1]

count(grouped) ==
    [gene \in DOMAIN grouped |->
        [column \in ColumnsOf(grouped[gene]) |->
            GroupCount(GroupColumn(grouped[gene], column))]]

\* averageBestN(group, numToAverage), one column of it.
BestNKeepNa(q, numToAverage) == Prefix(SortedByAbsReverse(q), numToAverage)

BestN(q, numToAverage) == Prefix(SortedByAbsReverse(DropNa(q)), numToAverage)

\* np.mean of a list.
NpMean(q) == IF q = <<>> THEN NaN ELSE FDivInt(FSum(q), Len(q))

averageBestN(group, numToAverage) ==
    [column \in ColumnsOf(group) |->
        IF Len(DropNa(GroupColumn(group, column))) > 0
        THEN NpMean(BestN(GroupColumn(group, column), numToAverage))
        ELSE NaN]

\* stats.mannwhitneyu(x, y) of two samples without NaN, as what determines the
\* two-sided p-value: the sample sizes, twice the U statistic of x (a tie
\* counts a half) and the tie term, the sum of t^3 - t over the groups of t
\* equal values.  What the p-value is for them is the library's.
TimesIn(v, q) == Len(SelectSeq(q, LAMBDA x : x = v))

RECURSIVE TieTerm(_, _)
TieTerm(S, q) ==
    IF S = {} THEN 0
    ELSE LET v == CHOOSE x \in S : TRUE
             t == TimesIn(v, q)
         IN  t * t * t - t + TieTerm(S \ {v}, q)

TwiceU(x, y) ==
    SeqTotal([i \in DOMAIN x |->
                 SeqTotal([j \in DOMAIN y |->
                              IF FLess(y[j], x[i]) THEN 2
                              ELSE IF x[i] = y[j] THEN 1 ELSE 0])])

MannWhitneyU(x, y) ==
    [kind |-> "pvalue", n1 |-> Len(x), n2 |-> Len(y), u |-> TwiceU(x, y),
     ties |-> TieTerm(Range(x \o y), x \o y)]

\* The samples some versions of the library refuse with a ValueError: an empty
\* reference sample, and samples whose values are all identical.
MannWhitneyURefuses(x, y) == y = <<>> \/ Cardinality(Range(x \o y)) = 1

\* applyMW(group, negativeTable): the p-value of every column that has a
\* non-missing score, NaN for the others.
applyMWUnguarded(group, negTable) ==
    [column \in ColumnsOf(group) |->
        MannWhitneyU(DropNa(GroupColumn(group, column)),
                     DropNa(GroupColumn(negTable, column)))]

applyMW(group, negTable) ==
    [column \in ColumnsOf(group) |->
        IF Len(DropNa(GroupColumn(group, column))) > 0
        THEN MannWhitneyU(DropNa(GroupColumn(group, column)),
                          DropNa(GroupColumn(negTable, column)))
        ELSE NaN]

\* The calls of stats.mannwhitneyu applyMW makes for a group.
MWCalls(group, negTable) ==
    {<<DropNa(GroupColumn(group, column)), DropNa(GroupColumn(negTable, column))>> :
        column \in {c \in ColumnsOf(group) : Len(DropNa(GroupColumn(group, c))) > 0}}

\* calculate_nth, one column of one group (line 580): the list is sorted as
\* it is, NaN included, and len(x) counts every row of the group.
NthBest(q, nth) == IF nth <= Len(q) THEN PyIndex(SortedByAbsReverse(q), nth - 1) ELSE NaN

NthBestRaises(q, nth) == nth <= Len(q) /\ ~PyIndexOk(SortedByAbsReverse(q), nth - 1)

AnalysisNames == {"calculate_ave", "calculate_mw", "calculate_nth"}

\* An analysis name that is not known taken as a default.
AnalysisDefaulted(analysisName) == TRUE

\* The else branch of line 585.
AnalysisRecognized(analysisName) == analysisName \in AnalysisNames

\* applyGeneScoreFunction: the statistic and the count of every column of
\* every group, under the two keys of the analysis.
applyGeneScoreFunction(grouped, negTable, analysisName, paramList) ==
    IF analysisName = "calculate_ave"
    THEN IF paramList[1] <= 0
         THEN [keys |-> <<<<"average of all phenotypes">>,
                          <<"average of all phenotypes_sgRNAcount">>>>,
               values |-> [gene \in DOMAIN grouped |->
                              [column \in ColumnsOf(grouped[gene]) |->
                                  MeanSkipNa(GroupColumn(grouped[gene], column))]],
               counts |-> count(grouped)]
         ELSE [keys |-> <<<<"average phenotype of strongest %d", paramList[1]>>,
                          <<"sgRNA count_avg">>>>,
               values |-> [gene \in DOMAIN grouped |->
                              averageBestN(grouped[gene], paramList[1])],
               counts |-> count(grouped)]
    ELSE IF analysisName = "calculate_mw"
    THEN [keys |-> <<<<"Mann-Whitney p-value">>, <<"sgRNA count_MW">>>>,
          values |-> [gene \in DOMAIN grouped |-> applyMW(grouped[gene], negTable)],
          counts |-> count(grouped)]
    ELSE [keys |-> <<<<"%dth best score", paramList[1]>>, <<"sgRNA count_nth best">>>>,
          values |-> [gene \in DOMAIN grouped |->
                         [column \in ColumnsOf(grouped[gene]) |->
                             NthBest(GroupColumn(grouped[gene], column), paramList[1])]],
          counts |-> count(grouped)]

\* Whether the call raises: always for an analysis that is not recognized
\* (line 584) and for an index outside the sorted list, possibly where the
\* library refuses a sample.
GeneScoreRaises(grouped, analysisName, paramList) ==
    \/ ~AnalysisRecognized(analysisName)
    \/ /\ analysisName = "calculate_nth"
       /\ \E gene \in DOMAIN grouped : \E column \in ColumnsOf(grouped[gene]) :
              NthBestRaises(GroupColumn(grouped[gene], column), paramList[1])

GeneScoreMayRaise(grouped, negTable, analysisName) ==
    /\ analysisName = "calculate_mw"
    /\ \E gene \in DOMAIN grouped : \E call \in MWCalls(grouped[gene], negTable) :
           MannWhitneyURefuses(call[1], call[2])

(***************************************************************************)
(* applyGeneScoreFunction on its own: one group of up to MaxGroup rows over *)
(* two columns, the scores NaN, -MaxScore and 1..MaxScore, every analysis   *)
(* with the parameters -1..MaxN, and for the Mann-Whitney test up to        *)
(* MaxNegatives negative-control rows.                                      *)
(***************************************************************************)
MaxGroup == 3
MaxScore == 2
MaxN == 3
MaxNegatives == 1

GeneColumns == {<<"rho", "Rep1">>, <<"rho", "Rep2">>}

ScoreValues == {NaN, Whole(-MaxScore)} \cup {Whole(v) : v \in 1..MaxScore}

NegativeValues == {NaN, Whole(1)}

GroupRows == UNION {[1..n -> [GeneColumns -> ScoreValues]] : n \in 1..MaxGroup}

NegativeRows == UNION {[1..n -> [GeneColumns -> NegativeValues]] : n \in 0..MaxNegatives}

ApplyGeneScoreFunction ==
    /\ pc = "grouped"
    /\ IF GeneScoreRaises(groupedPhenotypeTable, analysis, analysisParamList)
       THEN pc' = "error" /\ result' = <<>>
       ELSE \/ /\ pc' = "returned"
               /\ result' = applyGeneScoreFunction(groupedPhenotypeTable, negativeTable,
                                                   analysis, analysisParamList)
            \/ /\ GeneScoreMayRaise(groupedPhenotypeTable, negativeTable, analysis)
               /\ pc' = "error"
               /\ result' = <<>>
    /\ UNCHANGED <<groupedPhenotypeTable, negativeTable, analysis, analysisParamList>>
    /\ UNCHANGED <<mergeVars, mergedCountsTable, scoreConfig, scoreVars, tailVars>>
    /\ UNCHANGED funcVars
    /\ UNCHANGED runVars

InitGeneScore ==
    /\ pc = "grouped"
    /\ counts_file_list = <<>>
    /\ countsFiles = <<>>
    /\ countsTable = <<>>
    /\ exptCountsTable = <<>>
    /\ exptsTable = <<>>
    /\ mergedCountsTable = <<>>
    /\ ScoreIdle
    /\ TailIdle
    /\ \E rows \in GroupRows : groupedPhenotypeTable = [gene \in {"geneA"} |-> rows]
    /\ analysis \in AnalysisNames \cup {"bogus"}
    /\ IF analysis = "calculate_mw"
       THEN negativeTable \in NegativeRows /\ analysisParamList = <<>>
       ELSE /\ negativeTable = <<>>
            /\ \E n \in IF analysis = "bogus" THEN {0} ELSE -1..MaxN :
                   analysisParamList = <<n>>
    /\ result = <<>>
    /\ FuncIdle
    /\ RunIdle

NextGeneScore == ApplyGeneScoreFunction

SpecGeneScore == InitGeneScore /\ [][NextGeneScore]_vars

(***************************************************************************)
(* filterLowCounts, computePhenotypeScore and applyGeneScoreFunction called *)
(* alone, as the tests and other scripts of the repository call them.       *)
(***************************************************************************)
NumCallGuides == 2
MaxThreshold == 3

\* The outcome of a call: an exception, or the table returned.
Raised == [raised |-> TRUE, table |-> <<>>]

Returned(table) == [raised |-> FALSE, table |-> table]

\* The else branches of lines 447 and 481.
FilterTypeRecognized(filterType) == filterType \in FilterTypes

PseudocountBehaviorRecognized(pseudocountBehavior) ==
    pseudocountBehavior \in PseudocountBehaviors

\* pd.concat([counts1, counts2], axis=1) of two integer columns.
CombinedCounts(columns) ==
    [g \in DOMAIN columns |-> <<Whole(columns[g][1]), Whole(columns[g][2])>>]

\* filterLowCounts(countsColumns, filterType, filterThreshold) with one more
\* threshold.
FilterLowCounts ==
    /\ pc = "call"
    /\ \E filterThreshold \in (0..MaxThreshold) \ DOMAIN filterResults :
           filterResults' =
               [t \in DOMAIN filterResults \cup {filterThreshold} |->
                   IF t \in DOMAIN filterResults THEN filterResults[t]
                   ELSE IF FilterTypeRecognized(filter_type)
                   THEN Returned(filterLowCounts(inputColumns, filter_type, t))
                   ELSE Raised]
    /\ UNCHANGED <<pc, inputColumns, scoreResult, libraryFastaFile, libraryFileResult>>
    /\ UNCHANGED <<mergeVars, mergedCountsTable, scoreConfig, scoreVars, geneVars,
                   tailVars, runVars>>

\* computePhenotypeScore(counts1, counts2, libraryTable, growthValue,
\*                       pseudocountBehavior, pseudocountValue)
ComputePhenotypeScore ==
    /\ pc = "call"
    /\ scoreResult = <<>>
    /\ scoreResult' =
           IF PseudocountBehaviorRecognized(pseudocount_behavior)
           THEN Returned(computePhenotypeScore(CombinedCounts(inputColumns), libraryTable,
                                               growthValueDict[<<"rho", "Rep1">>],
                                               pseudocount_behavior, pseudocount))
           ELSE Raised
    /\ UNCHANGED <<pc, inputColumns, filterResults, libraryFastaFile,
                   libraryFileResult>>
    /\ UNCHANGED <<mergeVars, mergedCountsTable, scoreConfig, scoreVars, geneVars,
                   tailVars, runVars>>

InitCalls ==
    /\ pc = "call"
    /\ counts_file_list = <<>>
    /\ countsFiles = <<>>
    /\ countsTable = <<>>
    /\ exptCountsTable = <<>>
    /\ exptsTable = <<>>
    /\ mergedCountsTable = <<>>
    /\ libraryTable = ScoreLibrary(NumCallGuides)
    /\ inputColumns \in [1..NumCallGuides -> (0..MaxCount) \X (0..MaxCount)]
    /\ filter_type \in FilterTypes \cup {"bogus"}
    /\ minimum_reads = 0
    /\ pseudocount_behavior \in PseudocountBehaviors \cup {"bogus"}
    /\ pseudocount \in 0..MaxPseudocount
    /\ growthValueDict = [k \in {<<"rho", "Rep1">>} |-> 1]
    /\ filtCols = <<>>
    /\ countsPseudo = <<>>
    /\ phenotypeScoreDict = <<>>
    /\ phenotypeTable = <<>>
    /\ resultTable = <<>>
    /\ filterResults = <<>>
    /\ scoreResult = <<>>
    /\ libraryFastaFile = <<>>
    /\ libraryFileResult = <<>>
    /\ GeneIdle
    /\ TailIdle
    /\ RunIdle

(***************************************************************************)
(* readLibraryFile on a file of up to MaxLines lines.  A line is the        *)
(* sequence of its characters; every line but the last ends with a newline. *)
(***************************************************************************)
MaxLines == 4

Newline == "\n"

FastaLines ==
    {<<">", "a", Newline>>, <<">", "b", Newline>>, <<"A", "C", Newline>>,
     <<Newline>>, <<">", "a">>, <<"A", "C">>}

FastaFiles ==
    {file \in SeqsUpTo(FastaLines, MaxLines) :
        \A i \in 1..(Len(file) - 1) : file[i][Len(file[i])] = Newline}

\* infile.readline(): the next line, the empty string at the end of the file.
ReadLine(file, i) == IF i <= Len(file) THEN file[i] ELSE <<>>

\* str.strip()
RECURSIVE Strip(_)
Strip(line) ==
    IF line = <<>> THEN <<>>
    ELSE IF line[1] \in {Newline, " "} THEN Strip(Tail(line))
    ELSE IF line[Len(line)] \in {Newline, " "} THEN Strip(SubSeq(line, 1, Len(line) - 1))
    ELSE line

\* The test of line 333: readline never returns None.
BadRecord(idLine, seqLine) == idLine[1] # ">"

\* The loop of lines 330-338 from line i on: the exception, or elementList.
RECURSIVE ReadElements(_, _, _)
ReadElements(file, i, elementList) ==
    LET idLine == ReadLine(file, i)
        seqLine == ReadLine(file, i + 1)
    IN  IF idLine = <<>> THEN Returned(elementList)
        ELSE IF BadRecord(idLine, seqLine) THEN Raised
        ELSE ReadElements(file, i + 2,
                          Append(elementList, <<Strip(Tail(idLine)), Strip(seqLine)>>))

\* readLibraryFile: the (id, aligned_seq) rows of the table; zip(*[]) of
\* line 340 cannot be unpacked when there is no element.
readLibraryFile(file) ==
    LET elements == ReadElements(file, 1, <<>>)
    IN  IF elements.raised \/ elements.table = <<>> THEN Raised ELSE elements

ReadLibraryFile ==
    /\ pc = "readLibrary"
    /\ libraryFileResult' = readLibraryFile(libraryFastaFile)
    /\ pc' = IF libraryFileResult'.raised THEN "error" ELSE "returned"
    /\ UNCHANGED <<inputColumns, filterResults, scoreResult, libraryFastaFile>>
    /\ UNCHANGED <<mergeVars, mergedCountsTable, scoreConfig, scoreVars, geneVars,
                   tailVars, runVars>>

InitReadLibrary ==
    /\ pc = "readLibrary"
    /\ counts_file_list = <<>>
    /\ countsFiles = <<>>
    /\ countsTable = <<>>
    /\ exptCountsTable = <<>>
    /\ exptsTable = <<>>
    /\ mergedCountsTable = <<>>
    /\ ScoreIdle
    /\ GeneIdle
    /\ TailIdle
    /\ inputColumns = <<>>
    /\ filterResults = <<>>
    /\ scoreResult = <<>>
    /\ libraryFastaFile \in FastaFiles
    /\ libraryFileResult = <<>>
    /\ RunIdle

InitFunctions == InitCalls \/ InitGeneScore \/ InitReadLibrary

NextFunctions ==
    FilterLowCounts \/ ComputePhenotypeScore \/ ApplyGeneScoreFunction \/ ReadLibraryFile

SpecFunctions == InitFunctions /\ [][NextFunctions]_vars

(***************************************************************************)
(* The gene stages of the pipeline (lines 200-290): the pseudogenes drawn   *)
(* from the negative controls, the gene table, and the end of the run.  A   *)
(* phenotype table maps every column to the scores of the guides; the       *)
(* guides of the library are numbered in index order and the pseudogene     *)
(* rows, appended after them, have the numbers from 1000.                   *)
(***************************************************************************)
\* The row of a guide, and the rows of the guides of ids in index order.
RowOf(table, g) == [column \in DOMAIN table |-> table[column][g]]

RowsOf(table, ids) == ColumnSeq([g \in ids |-> RowOf(table, g)], ids)

\* negTable (line 200).
NegTable(table, library) == RowsOf(table, NegativeControls(library))

\* str.lower() on the names of the configuration.
Lower(name) == IF name = "Manual" THEN "manual" ELSE name

\* The library without drop_duplicates.
KeepDuplicates(library) == DOMAIN library

\* library.drop_duplicates(['gene', 'sequence']): the first guide of every
\* (gene, sequence).
DropDuplicates(library) ==
    {g \in DOMAIN library :
        \A h \in DOMAIN library :
            h < g => ~(/\ library[h].gene = library[g].gene
                       /\ library[h].sequence = library[g].sequence)}

\* The names groupby iterates over, in sorted order.
GeneOrder == <<"geneA", "geneB", "negative_control">>
TranscriptOrder == <<"P1", "P1P2">>

\* enumerate(...groupby(...)): how many of the names present come before.
PlaceIn(order, present, name) ==
    Cardinality({i \in DOMAIN order :
                    /\ order[i] \in present
                    /\ \E j \in DOMAIN order : order[j] = name /\ i < j})

\* 'pseudo_%d' and 'pseudo_transcript_%d'; the id 'pseudo_%d_%d' of a manual
\* pseudogene row and 'pseudo_%d_%d_%d' of an automatic one as numbers, the
\* sequence 'seq_...' of the row being the same number.
\* 'pseudo_%d' replaced by the names of real genes.
PseudoGeneNameOfRealGene(pseudogene) == <<"geneA", "geneB", "pseudo_2">>[pseudogene + 1]

PseudoGeneName(pseudogene) == <<"pseudo_0", "pseudo_1", "pseudo_2">>[pseudogene + 1]

PseudoTranscriptName(transcript) ==
    <<"pseudo_transcript_0", "pseudo_transcript_1">>[transcript + 1]

ManualId(pseudogene, i) == 1000 + 10 * pseudogene + i

AutoId(pseudogene, transcript, i) == 2000 + 100 * pseudogene + 10 * transcript + i

\* The manual mode with range(pseudogene_size - 1) in the place of
\* range(pseudogene_size).
ManualPseudoLibraryOneLess(number, size) ==
    [id \in {ManualId(pseudogene, i) : pseudogene \in 0..(number - 1), i \in 0..(size - 2)} |->
        [gene |-> PseudoGeneName((id - 1000) \div 10),
         transcripts |-> "na",
         sequence |-> id]]

\* pseudoLibTables of the manual mode (lines 212-221).
ManualPseudoLibrary(number, size) ==
    [id \in {ManualId(pseudogene, i) : pseudogene \in 0..(number - 1), i \in 0..(size - 1)} |->
        [gene |-> PseudoGeneName((id - 1000) \div 10),
         transcripts |-> "na",
         sequence |-> id]]

\* pseudoLibTables of the automatic mode (lines 225-238): for every gene but
\* the negative controls and every transcript of it, as many rows as the
\* transcript has guides without duplicates.
AutoSlots(library) ==
    LET kept == DropDuplicates(library)
        genes == {library[g].gene : g \in kept}
        transcriptsOf(gene) == {library[g].transcripts :
                                   g \in {h \in kept : library[h].gene = gene}}
        sizeOf(gene, transcript) ==
            Cardinality({g \in kept : /\ library[g].gene = gene
                                      /\ library[g].transcripts = transcript})
    IN  UNION {UNION {{<<PlaceIn(GeneOrder, genes, gene),
                        PlaceIn(TranscriptOrder, transcriptsOf(gene), transcript), i>> :
                          i \in 0..(sizeOf(gene, transcript) - 1)} :
                      transcript \in transcriptsOf(gene)} :
               gene \in genes \ {"negative_control"}}

AutoPseudoLibrary(library) ==
    [id \in {AutoId(slot[1], slot[2], slot[3]) : slot \in AutoSlots(library)} |->
        [gene |-> PseudoGeneName((id - 2000) \div 100),
         transcripts |-> PseudoTranscriptName(((id - 2000) % 100) \div 10),
         sequence |-> id]]

\* The pseudogene rows the mode asks for; none for a mode that is not
\* recognized (line 241).
PseudoLibrary(mode, library, number, size) ==
    IF Lower(mode) = "manual" THEN ManualPseudoLibrary(number, size)
    ELSE IF Lower(mode) = "auto" THEN AutoPseudoLibrary(library)
    ELSE <<>>

\* Lines 213, 230, 243, 244: np.random.randint(0, 0, n) raises, and so does
\* pd.concat of an empty list.
PseudogenesRaise(pseudoLibrary, negTable) ==
    \/ DOMAIN pseudoLibrary = {}
    \/ negTable = <<>>

\* table.append(rows) and library.append(rows).
AppendRows(table, draws, negTable) ==
    [column \in DOMAIN table |->
        [g \in DOMAIN table[column] \cup DOMAIN draws |->
            IF g \in DOMAIN draws THEN negTable[draws[g]][column]
            ELSE table[column][g]]]

AppendLibrary(library, pseudoLibrary) ==
    [g \in DOMAIN library \cup DOMAIN pseudoLibrary |->
        IF g \in DOMAIN library THEN library[g] ELSE pseudoLibrary[g]]

\* An alternative in which the phenotype table is written again once the
\* pseudogene rows are appended.
FilesRewrittenAfterPseudogenes(written, table) ==
    ToCsv(written, "_phenotypetable.txt", table)

\* The files after lines 200-246, which write none: phenotypeTable is
\* rebound at line 243, after its file was written at line 179.
FilesAfterPseudogenes(written, table) == written

\* Lines 200-246.
GeneratePseudogenes ==
    /\ pc = "averaged"
    /\ negativeTable' = NegTable(phenotypeTable, libraryTable)
    /\ IF generate_pseudogene_dist # "off" /\ DOMAIN analyses # {}
       THEN LET pseudoLibrary == PseudoLibrary(generate_pseudogene_dist, libraryTable,
                                               num_pseudogenes, pseudogene_size)
            IN  IF PseudogenesRaise(pseudoLibrary, negativeTable')
                THEN /\ pc' = "error"
                     /\ UNCHANGED <<phenotypeTable, libraryTableGeneAnalysis>>
                ELSE /\ pc' = "pseudogenes"
                     /\ \E draws \in [DOMAIN pseudoLibrary -> DOMAIN negativeTable'] :
                            phenotypeTable' =
                                AppendRows(phenotypeTable, draws, negativeTable')
                     /\ libraryTableGeneAnalysis' =
                            AppendLibrary(libraryTable, pseudoLibrary)
       ELSE /\ pc' = "pseudogenes"
            /\ libraryTableGeneAnalysis' = libraryTable
            /\ UNCHANGED phenotypeTable
    /\ UNCHANGED <<mergeVars, mergedCountsTable, scoreConfig, filtCols, countsPseudo,
                   phenotypeScoreDict, resultTable>>
    /\ UNCHANGED <<groupedPhenotypeTable, analysis, analysisParamList, result>>
    /\ UNCHANGED <<generate_pseudogene_dist, num_pseudogenes, pseudogene_size, analyses,
                   collapse_to_transcripts, geneTable, geneTableCollapsed,
                   generatePlots>>
    /\ UNCHANGED funcVars
    /\ files' = FilesAfterPseudogenes(files, phenotypeTable')
    /\ UNCHANGED <<startVars, settingsVars, plotCalls>>

\* geneGroups (lines 253-261): the rows of the guides that are the first of
\* their (gene, sequence) and no negative controls, grouped by gene, or by
\* gene and transcripts.
GroupKey(library, g, collapse) ==
    IF collapse THEN <<library[g].gene, library[g].transcripts>> ELSE library[g].gene

\* The grouped guides with the negative controls left in.
GroupedGuidesWithNegatives(library) == DropDuplicates(library)

GroupedGuides(library) ==
    {g \in DropDuplicates(library) : library[g].gene # "negative_control"}

GeneGroups(table, library, collapse) ==
    [key \in {GroupKey(library, g, collapse) : g \in GroupedGuides(library)} |->
        RowsOf(table, {g \in GroupedGuides(library) :
                          GroupKey(library, g, collapse) = key})]

\* The results of the analyses (lines 263-268), and the gene table made of
\* them (line 270): a column for every (phenotype, replicate, key).
AnalysisResults(groups, negTable, requested) ==
    [name \in DOMAIN requested |->
        applyGeneScoreFunction(groups, negTable, name, requested[name])]

GeneTableOf(groups, negTable, requested) ==
    LET results == AnalysisResults(groups, negTable, requested)
        columns == UNION {DOMAIN groups[key][1] : key \in DOMAIN groups}
    IN  [k \in UNION {{<<column[1], column[2], results[name].keys[i]>> :
                          column \in columns, i \in 1..2} :
                      name \in DOMAIN requested} |->
            LET name == CHOOSE n \in DOMAIN requested :
                            k[3] \in {results[n].keys[1], results[n].keys[2]}
            IN  [key \in DOMAIN groups |->
                    IF k[3] = results[name].keys[1]
                    THEN results[name].values[key][<<k[1], k[2]>>]
                    ELSE results[name].counts[key][<<k[1], k[2]>>]]]

GeneScoresRaise(groups, requested) ==
    \E name \in DOMAIN requested : GeneScoreRaises(groups, name, requested[name])

GeneScoresMayRaise(groups, negTable, requested) ==
    \E name \in DOMAIN requested : GeneScoreMayRaise(groups, negTable, name)

\* Lines 249-271.
ComputeGeneScores ==
    /\ pc = "pseudogenes"
    /\ IF DOMAIN analyses = {}
       THEN pc' = "geneScored" /\ UNCHANGED <<geneTable, files>>
       ELSE LET groups == GeneGroups(phenotypeTable, libraryTableGeneAnalysis,
                                     collapse_to_transcripts)
            IN  IF GeneScoresRaise(groups, analyses)
                THEN pc' = "error" /\ UNCHANGED <<geneTable, files>>
                ELSE \/ /\ pc' = "geneScored"
                        /\ geneTable' = GeneTableOf(groups, negativeTable, analyses)
                        /\ files' = ToCsv(files, "_genetable.txt", geneTable')
                     \/ /\ GeneScoresMayRaise(groups, negativeTable, analyses)
                        /\ pc' = "error"
                        /\ UNCHANGED <<geneTable, files>>
    /\ UNCHANGED <<mergeVars, mergedCountsTable, scoreConfig, scoreVars, geneVars>>
    /\ UNCHANGED <<generate_pseudogene_dist, num_pseudogenes, pseudogene_size, analyses,
                   collapse_to_transcripts, libraryTableGeneAnalysis,
                   geneTableCollapsed, generatePlots>>
    /\ UNCHANGED funcVars
    /\ UNCHANGED <<startVars, settingsVars, plotCalls>>

\* The two-sided p-value of stats.mannwhitneyu is 2 * norm.sf(|z|), with
\* z = (max(U1, U2) - n1*n2/2 - 1/2) / sd and
\* sd^2 = T * n1 * n2 * (n + 1) / 12, T = 1 - ties / (n^3 - n): it falls as
\* z^2 grows.  ZSquared is z^2 as the pair (numerator, denominator), the
\* denominator 0 for an infinite z (sd = 0) and z = 0 where every value is
\* the same.
ZSquared(p) ==
    LET n == p.n1 + p.n2
        a == Abs(Max2(p.u, 2 * p.n1 * p.n2 - p.u) - p.n1 * p.n2 - 1)
    IN  IF p.n2 = 0 THEN <<1, 0>>
        ELSE IF p.ties = n * n * n - n THEN <<0, 1>>
        ELSE <<3 * a * a * (n * n * n - n),
               p.n1 * p.n2 * (n + 1) * (n * n * n - n - p.ties)>>

\* p < q for two p-values that are not NaN.
PValueLess(p, q) == ZSquared(p)[1] * ZSquared(q)[2] > ZSquared(q)[1] * ZSquared(p)[2]

\* The labels of the transcripts in the order of the index of the gene table.
TranscriptIndexOrder ==
    <<"P1", "P1P2", "na", "pseudo_transcript_0", "pseudo_transcript_1">>

\* The label idxmin gives for a column without a number.
NoTranscript == "nan"

\* idxmin() of a column of p-values given as pairs (transcript, p-value) in
\* index order (line 311): the label of the first smallest p-value, NaN
\* skipped.
RECURSIVE IdxMinFrom(_, _, _)
IdxMinFrom(pairs, i, best) ==
    IF i > Len(pairs) THEN (IF best = 0 THEN NoTranscript ELSE pairs[best][1])
    ELSE IF IsNaN(pairs[i][2]) THEN IdxMinFrom(pairs, i + 1, best)
    ELSE IF best = 0 THEN IdxMinFrom(pairs, i + 1, i)
    ELSE IF PValueLess(pairs[i][2], pairs[best][2]) THEN IdxMinFrom(pairs, i + 1, i)
    ELSE IdxMinFrom(pairs, i + 1, best)

RECURSIVE IdxMinLastFrom(_, _, _)
IdxMinLastFrom(pairs, i, best) ==
    IF i > Len(pairs) THEN (IF best = 0 THEN NoTranscript ELSE pairs[best][1])
    ELSE IF IsNaN(pairs[i][2]) THEN IdxMinLastFrom(pairs, i + 1, best)
    ELSE IF best = 0 THEN IdxMinLastFrom(pairs, i + 1, i)
    ELSE IF ~PValueLess(pairs[best][2], pairs[i][2]) THEN IdxMinLastFrom(pairs, i + 1, i)
    ELSE IdxMinLastFrom(pairs, i + 1, best)

IdxMinLast(pairs) == IdxMinLastFrom(pairs, 1, 0)

IdxMin(pairs) == IdxMinFrom(pairs, 1, 0)

\* The genes of a gene table indexed by (gene, transcripts), the transcripts
\* of a gene in index order, and the (phenotype, replicate) pairs of its
\* columns.
TableRows(table) == UNION {DOMAIN table[k] : k \in DOMAIN table}

TableGenes(table) == {row[1] : row \in TableRows(table)}

TranscriptsOf(table, gene) ==
    SelectSeq(TranscriptIndexOrder, LAMBDA t : <<gene, t>> \in TableRows(table))

TableTuples(table) == {<<k[1], k[2]>> : k \in DOMAIN table}

PValueKey == <<"Mann-Whitney p-value">>

\* getBestTranscript (lines 309-311), one (phenotype, replicate) of it.
getBestTranscript(table, gene, tup) ==
    IdxMin([i \in DOMAIN TranscriptsOf(table, gene) |->
               <<TranscriptsOf(table, gene)[i],
                 table[<<tup[1], tup[2], PValueKey>>][<<gene, TranscriptsOf(table, gene)[i]>>]>>])

\* geneTable.loc[zip(genes, best transcripts), tup] (line 303) raises a
\* KeyError where none of the rows asked for is in the table: no gene has a
\* p-value in the column.
BestTranscriptRaises(table) ==
    \E tup \in TableTuples(table) :
        \A gene \in TableGenes(table) : getBestTranscript(table, gene, tup) = NoTranscript

\* scoreGeneByBestTranscript(geneTable): for every (phenotype, replicate) and
\* gene the label of the best transcript and the statistics of its row, and
\* NaN for a row that is not in the table.
scoreGeneByBestTranscript(table) ==
    [k \in DOMAIN table \cup {<<tup[1], tup[2], <<"transcripts">>>> : tup \in TableTuples(table)} |->
        [gene \in TableGenes(table) |->
            LET best == getBestTranscript(table, gene, <<k[1], k[2]>>)
            IN  IF k[3] = <<"transcripts">> THEN best
                ELSE IF best = NoTranscript THEN NaN
                ELSE table[k][<<gene, best>>]]]

\* Lines 273-279.
CollapseTranscripts ==
    /\ pc = "geneScored"
    /\ IF collapse_to_transcripts /\ "calculate_mw" \in DOMAIN analyses
       THEN IF BestTranscriptRaises(geneTable)
            THEN pc' = "error" /\ UNCHANGED <<geneTableCollapsed, files>>
            ELSE /\ pc' = "collapsed"
                 /\ geneTableCollapsed' = scoreGeneByBestTranscript(geneTable)
                 /\ files' = ToCsv(files, "_genetable_collapsed.txt",
                                   geneTableCollapsed')
       ELSE pc' = "collapsed" /\ UNCHANGED <<geneTableCollapsed, files>>
    /\ UNCHANGED <<mergeVars, mergedCountsTable, scoreConfig, scoreVars, geneVars>>
    /\ UNCHANGED <<generate_pseudogene_dist, num_pseudogenes, pseudogene_size, analyses,
                   collapse_to_transcripts, libraryTableGeneAnalysis, geneTable,
                   generatePlots>>
    /\ UNCHANGED funcVars
    /\ UNCHANGED <<startVars, settingsVars, plotCalls>>

\* Lines 281-290: the plots of the gene scores read geneTableCollapsed (line
\* 286), a name that is bound only where the transcripts were collapsed
\* (line 278).
GenePlotsRequested ==
    /\ generatePlots # "off"
    /\ "calculate_ave" \in DOMAIN analyses
    /\ "calculate_mw" \in DOMAIN analyses

CollapsedTableBound ==
    /\ collapse_to_transcripts
    /\ "calculate_mw" \in DOMAIN analyses

\* replicate[:4] == 'ave_'
AveLabels == {"ave_Rep1_Rep2", "ave_Rep1", "ave_Rep2", "ave_"}

\* The (phenotype, replicate) groups that get a volcano plot (line 287):
\* every one when there is one replicate, the averaged ones otherwise.  The
\* replicates are those of the columns of the table.
VolcanoColumns(table) ==
    LET columns == {<<k[1], k[2]>> : k \in DOMAIN table}
        replicates == {c[2] : c \in columns} \ AveLabels
    IN  {c \in columns : Cardinality(replicates) = 1 \/ c[2] \in AveLabels}

Finish ==
    /\ pc = "collapsed"
    /\ pc' = IF GenePlotsRequested /\ ~CollapsedTableBound THEN "error" ELSE "done"
    /\ plotCalls' =
           IF GenePlotsRequested /\ CollapsedTableBound
           THEN plotCalls \cup PlotCalls("volcanoPlot", VolcanoColumns(geneTableCollapsed))
           ELSE plotCalls
    /\ UNCHANGED <<mergeVars, mergedCountsTable, scoreConfig, scoreVars, geneVars,
                   tailVars>>
    /\ UNCHANGED funcVars
    /\ UNCHANGED <<startVars, files, settingsVars>>

(***************************************************************************)
(* The runs of the gene stages: a phenotype table of one column over a      *)
(* small library (with two negative controls, without any, or with a        *)
(* duplicated guide), the scores NaN, -1 and MaxTailScore, every            *)
(* pseudogene mode with up to MaxPseudogenes pseudogenes of up to           *)
(* MaxPseudogeneSize rows, and a choice of analyses, with and without       *)
(* transcript collapse; and the runs over two columns of the first library  *)
(* that collapse the transcripts of the two analyses without pseudogenes.   *)
(***************************************************************************)
MaxTailScore == 2
MaxPseudogenes == 2
MaxPseudogeneSize == 2

Guide(gene, transcripts, sequence) ==
    [gene |-> gene, transcripts |-> transcripts, sequence |-> sequence]

TwoTranscriptLibrary ==
    <<Guide("geneA", "P1", 1), Guide("geneA", "P1P2", 2),
      Guide("negative_control", "P1", 3), Guide("negative_control", "P1", 4)>>

TailLibraries ==
    {TwoTranscriptLibrary,
     <<Guide("geneA", "P1", 1), Guide("geneB", "P1", 2)>>,
     <<Guide("geneA", "P1", 1), Guide("geneA", "P1", 1),
       Guide("geneB", "P1", 3), Guide("negative_control", "P1", 4)>>}

TailValues == {NaN, Whole(-1), Whole(MaxTailScore)}

PseudogeneModes == {"off", "manual", "Manual", "auto", "bogus"}

AnalysesChoices ==
    {<<>>,
     [name \in {"calculate_ave"} |-> <<1>>],
     [name \in {"calculate_ave"} |-> <<0>>],
     [name \in {"calculate_mw"} |-> <<>>],
     [name \in {"calculate_nth"} |-> <<1>>],
     [name \in {"calculate_ave", "calculate_mw"} |->
         IF name = "calculate_ave" THEN <<1>> ELSE <<>>],
     [name \in {"bogus"} |-> <<>>]}

\* The run at line 179: its directories made, the plot settings changed
\* where plots are requested, the phenotype table written.
RunUnderway ==
    /\ libraryConfig = "ok"
    /\ parseStatus = 0
    /\ librarySublibraries = <<>>
    /\ sublibraries = {}
    /\ directories = IF generatePlots # "off" THEN {OutputFolder, PlotFolder}
                     ELSE {OutputFolder}
    /\ files = ToCsv(<<>>, "_phenotypetable.txt", phenotypeTable)
    /\ IF generatePlots # "off"
       THEN LET settings == changeDisplayFigureSettings(PlotFolder, generatePlots, FALSE)
            IN  /\ plotDirectory = settings.plotDirectory
                /\ imageExtension = settings.imageExtension
                /\ plotWithPylab = settings.plotWithPylab
                /\ settingsCalls = 1
       ELSE SettingsAtImport
    /\ plotCalls = {}

InitGenes ==
    /\ pc = "averaged"
    /\ counts_file_list = <<>>
    /\ countsFiles = <<>>
    /\ countsTable = <<>>
    /\ exptCountsTable = <<>>
    /\ exptsTable = <<>>
    /\ mergedCountsTable = <<>>
    /\ filter_type = ""
    /\ minimum_reads = 0
    /\ pseudocount_behavior = ""
    /\ pseudocount = 0
    /\ growthValueDict = <<>>
    /\ filtCols = <<>>
    /\ countsPseudo = <<>>
    /\ phenotypeScoreDict = <<>>
    /\ resultTable = <<>>
    /\ GeneIdle
    /\ \/ /\ libraryTable \in TailLibraries
          /\ phenotypeTable \in
                 [{<<"rho", "Rep1">>} -> [DOMAIN libraryTable -> TailValues]]
          /\ generate_pseudogene_dist \in PseudogeneModes
          /\ IF Lower(generate_pseudogene_dist) = "manual"
             THEN /\ num_pseudogenes \in 0..MaxPseudogenes
                  /\ pseudogene_size \in 1..MaxPseudogeneSize
             ELSE num_pseudogenes = 0 /\ pseudogene_size = 0
          /\ analyses \in AnalysesChoices
          /\ collapse_to_transcripts \in BOOLEAN
          /\ generatePlots \in {"off", "png"}
       \/ /\ libraryTable = TwoTranscriptLibrary
          /\ phenotypeTable \in
                 [{<<"rho", "Rep1">>, <<"rho", "Rep2">>} ->
                     [DOMAIN libraryTable -> TailValues]]
          /\ generate_pseudogene_dist = "off"
          /\ num_pseudogenes = 0
          /\ pseudogene_size = 0
          /\ analyses = [name \in {"calculate_ave", "calculate_mw"} |->
                             IF name = "calculate_ave" THEN <<1>> ELSE <<>>]
          /\ collapse_to_transcripts = TRUE
          /\ generatePlots = "off"
       \/ /\ libraryTable = TwoTranscriptLibrary
          /\ phenotypeTable \in
                 {table \in [{<<"rho", "Rep1">>, <<"rho", "Rep2">>} ->
                                [DOMAIN libraryTable -> TailValues]] :
                     \A column \in DOMAIN table :
                         /\ table[column][1] = Whole(-1)
                         /\ table[column][2] = Whole(MaxTailScore)}
          /\ \/ /\ generate_pseudogene_dist = "auto"
                /\ num_pseudogenes = 0
                /\ pseudogene_size = 0
             \/ /\ generate_pseudogene_dist = "manual"
                /\ num_pseudogenes = 1
                /\ pseudogene_size = 2
          /\ analyses = [name \in {"calculate_ave", "calculate_mw"} |->
                             IF name = "calculate_ave" THEN <<1>> ELSE <<>>]
          /\ collapse_to_transcripts = TRUE
          /\ generatePlots = "off"
    /\ libraryTableGeneAnalysis = <<>>
    /\ geneTable = <<>>
    /\ geneTableCollapsed = <<>>
    /\ FuncIdle
    /\ RunUnderway

NextGenes == GeneratePseudogenes \/ ComputeGeneScores \/ CollapseTranscripts \/ Finish

SpecGenes == InitGenes /\ [][NextGenes]_vars

(***************************************************************************)
(* processExperimentsFromConfig from its first line: the two config files   *)
(* are parsed, the directories made and the plot settings changed, the      *)
(* library read and limited to the requested sublibraries, and then the     *)
(* stages above.  parseLibraryConfig and parseExptConfig are taken by their *)
(* outcomes.  The library file holds the guides of ScoreLibrary(NumGuides), *)
(* all in one sublibrary, and one more guide in another.                    *)
(***************************************************************************)
MaxParseStatus == 1

\* The test of lines 36-49: either parse failed.
ParseFailedAboveOne(outcome, status) == outcome = "ValueError" \/ status > 1

ParseFailed(outcome, status) == outcome = "ValueError" \/ status > 0

\* Lines 36-49: the run returns when a config file does not parse.
ParseConfigs ==
    /\ pc = "begin"
    /\ pc' = IF ParseFailed(libraryConfig, parseStatus) THEN "exited" ELSE "parsed"
    /\ UNCHANGED <<mergeVars, mergedCountsTable, scoreConfig, scoreVars, geneVars,
                   tailVars, funcVars, runVars>>

\* Lines 51-59: the output folder and, with plots, the plot directory and
\* the settings of screen_analysis.
MakeDirectories ==
    /\ pc = "parsed"
    /\ pc' = "configured"
    /\ IF generatePlots # "off"
       THEN LET settings == changeDisplayFigureSettings(PlotFolder, generatePlots, FALSE)
            IN  /\ directories' = directories \cup {OutputFolder, PlotFolder}
                /\ plotDirectory' = settings.plotDirectory
                /\ imageExtension' = settings.imageExtension
                /\ plotWithPylab' = settings.plotWithPylab
                /\ settingsCalls' = settingsCalls + 1
       ELSE /\ directories' = directories \cup {OutputFolder}
            /\ UNCHANGED settingsVars
    /\ UNCHANGED <<libraryConfig, parseStatus, librarySublibraries, sublibraries, files,
                   plotCalls>>
    /\ UNCHANGED <<mergeVars, mergedCountsTable, scoreConfig, scoreVars, geneVars,
                   tailVars, funcVars>>

\* str.lower() on the sublibrary names of the library files.
LowerSublibrary(name) == IF name = "Top5" THEN "top5" ELSE name

\* sublibColumn (line 69): the guides of the library file whose sublibrary,
\* in lower case, is requested.
SublibColumn(sublibraryOf, requested) ==
    {g \in DOMAIN sublibraryOf : LowerSublibrary(sublibraryOf[g]) \in requested}

\* The library file: the guides of ScoreLibrary(NumGuides) and guide ExtraId.
LibraryFileTable ==
    [g \in FileIds |->
        IF g \in Guides THEN ScoreLibrary(NumGuides)[g]
        ELSE [gene |-> "geneX", transcripts |-> "P1", sequence |-> g]]

\* Lines 61-75: the run returns when no guide is in a requested sublibrary,
\* and writes libraryTable[sublibColumn] otherwise.
LoadLibrary ==
    /\ pc = "configured"
    /\ LET sublibColumn == SublibColumn(librarySublibraries, sublibraries)
       IN  IF sublibColumn = {}
           THEN /\ pc' = "exited"
                /\ UNCHANGED <<libraryTable, files>>
           ELSE /\ pc' = "start"
                /\ libraryTable' = [g \in sublibColumn |-> LibraryFileTable[g]]
                /\ files' = ToCsv(files, "_librarytable.txt", libraryTable')
    /\ UNCHANGED <<filter_type, minimum_reads, pseudocount_behavior, pseudocount,
                   growthValueDict>>
    /\ UNCHANGED <<startVars, settingsVars, plotCalls>>
    /\ UNCHANGED <<mergeVars, mergedCountsTable, scoreVars, geneVars, tailVars, funcVars>>

\* The lists of counts files of the runs: one file for each condition, a
\* file counted for two conditions and merged with another, one condition
\* alone, and a triple listed twice.
PipelineFileLists ==
    {<<<<"T0", "Rep1", 1>>, <<"treated", "Rep1", 2>>>>,
     <<<<"T0", "Rep1", 1>>, <<"treated", "Rep1", 2>>, <<"treated", "Rep1", 1>>>>,
     <<<<"T0", "Rep1", 1>>>>,
     <<<<"T0", "Rep1", 1>>, <<"T0", "Rep1", 1>>>>}

\* The records of a counts file of the runs: both guides, or one alone.
PipelineFileRecords ==
    {<<<<1, c1>>, <<2, c2>>>> : c1 \in {1, MaxCount}, c2 \in {1, MaxCount}}
        \cup {<<<<1, 1>>>>, <<<<2, 1>>>>}

PipelineAnalyses ==
    {<<>>,
     [name \in {"calculate_ave", "calculate_mw"} |->
         IF name = "calculate_ave" THEN <<1>> ELSE <<>>]}

InitPipeline ==
    /\ pc = "begin"
    /\ libraryConfig \in {"ok", "ValueError"}
    /\ parseStatus \in 0..MaxParseStatus
    /\ librarySublibraries \in
           {[g \in FileIds |-> IF g \in Guides THEN name ELSE "other"] :
               name \in {"top5", "Top5"}}
    /\ sublibraries \in {{"top5"}, {"other2"}}
    /\ directories = {}
    /\ files = <<>>
    /\ SettingsAtImport
    /\ plotCalls = {}
    /\ generatePlots \in {"off", "png", "pdf"}
    /\ counts_file_list \in PipelineFileLists
    /\ countsFiles \in [Files -> PipelineFileRecords]
    /\ countsTable = <<>>
    /\ mergedCountsTable = <<>>
    /\ exptCountsTable = <<>>
    /\ exptsTable = <<>>
    /\ libraryTable = <<>>
    /\ filter_type = "either"
    /\ minimum_reads = 1
    /\ pseudocount_behavior = "zeros only"
    /\ pseudocount = 1
    /\ growthValueDict = [k \in {<<"rho", "Rep1">>} |-> 1]
    /\ filtCols = <<>>
    /\ countsPseudo = <<>>
    /\ phenotypeScoreDict = <<>>
    /\ phenotypeTable = <<>>
    /\ resultTable = <<>>
    /\ GeneIdle
    /\ \/ generate_pseudogene_dist = "off" /\ num_pseudogenes = 0 /\ pseudogene_size = 0
       \/ generate_pseudogene_dist = "auto" /\ num_pseudogenes = 0 /\ pseudogene_size = 0
       \/ generate_pseudogene_dist = "manual" /\ num_pseudogenes = 1
              /\ pseudogene_size = 1
    /\ analyses \in PipelineAnalyses
    /\ collapse_to_transcripts \in BOOLEAN
    /\ libraryTableGeneAnalysis = <<>>
    /\ geneTable = <<>>
    /\ geneTableCollapsed = <<>>
    /\ FuncIdle

NextPipeline ==
    \/ ParseConfigs
    \/ MakeDirectories
    \/ LoadLibrary
    \/ LoadCounts
    \/ MergeCounts
    \/ ComputeScores
    \/ AverageReplicates
    \/ GeneratePseudogenes
    \/ ComputeGeneScores
    \/ CollapseTranscripts
    \/ Finish

SpecPipeline == InitPipeline /\ [][NextPipeline]_vars

(***************************************************************************)
(* C1.  Merge conservation: the sum of the totals of the merged columns is  *)
(* the sum of the totals of the raw per-file columns, and for every guide   *)
(* the merged value of a (condition, replicate) column is the sum of the    *)
(* guide's raw counts over exactly the files registered under that pair.    *)
(* Stated for the pipeline's merge and for mergeCountsForExperiments, the   *)
(* raw counts being the counts read from the files.                         *)
(***************************************************************************)
\* What the file contributes for an id: the counts of its first record.
FileCount(f, id) ==
    IF \E j \in DOMAIN countsFiles[f] : countsFiles[f][j][1] = id
    THEN countsFiles[f][CHOOSE j \in DOMAIN countsFiles[f] :
                            /\ countsFiles[f][j][1] = id
                            /\ \A k \in DOMAIN countsFiles[f] :
                                   countsFiles[f][k][1] = id => j <= k][2]
    ELSE 0

\* The files listed under a pair, as a sequence over the positions of the list.
ListedCounts(pair, id) ==
    [i \in DOMAIN counts_file_list |->
        IF <<counts_file_list[i][1], counts_file_list[i][2]>> = pair
        THEN FileCount(counts_file_list[i][3], id)
        ELSE 0]

AllListedCounts(ids) ==
    [i \in DOMAIN counts_file_list |->
        SumSet([id \in ids |-> FileCount(counts_file_list[i][3], id)], ids)]

TableTotal(table) ==
    SumSet([c \in DOMAIN table |-> SumSet(table[c], DOMAIN table[c])], DOMAIN table)

ListedPairs == {<<counts_file_list[i][1], counts_file_list[i][2]>> :
                    i \in DOMAIN counts_file_list}

MergeConservation ==
    /\ pc = "merged" =>
          /\ DOMAIN mergedCountsTable = ListedPairs
          /\ TableTotal(mergedCountsTable) = TableTotal(countsTable)
          /\ TableTotal(mergedCountsTable) = SeqTotal(AllListedCounts(Guides))
          /\ \A p \in ListedPairs : \A g \in Guides :
                 mergedCountsTable[p][g] = SeqTotal(ListedCounts(p, g))
    /\ pc = "exptsMerged" =>
          /\ DOMAIN exptsTable = ListedPairs
          /\ TableTotal(exptsTable) = SeqTotal(AllListedCounts(FileIds))
          /\ \A p \in ListedPairs : \A id \in DOMAIN exptsTable[p] :
                 exptsTable[p][id] = SeqTotal(ListedCounts(p, id))

\* Two files with reads of the same guide are merged into one column.
MergeConservationWitness ==
    /\ pc = "merged"
    /\ \E t, u \in DOMAIN countsTable :
           /\ t # u
           /\ <<t[1], t[2]>> = <<u[1], u[2]>>
           /\ \E g \in Guides : countsTable[t][g] > 0 /\ countsTable[u][g] > 0

(***************************************************************************)
(* C2.  Low-count filter semantics: with 'all' (or 'both') a row is masked  *)
(* iff the minimum of its two counts is below the threshold, with 'any' (or *)
(* 'either') iff the maximum is; a masked row has both cells missing and an *)
(* unmasked row keeps both counts.                                          *)
(***************************************************************************)
Scored == pc \in {"scored", "averaged", "returned"}

\* The claim's mask, stated on the two merged counts of the row.
ClaimedMask(key, g) ==
    LET c1 == CountColumns(key)[g][1]
        c2 == CountColumns(key)[g][2]
    IN  \/ filter_type \in {"all", "both"} /\ (c1 < minimum_reads \/ c2 < minimum_reads)
        \/ filter_type \in {"any", "either"} /\ (c1 < minimum_reads /\ c2 < minimum_reads)

FilterSemantics ==
    Scored =>
        \A k \in ScoreKeys : \A g \in DOMAIN libraryTable :
            /\ ClaimedMask(k, g) =>
                   IsNaN(filtCols[k][g][1]) /\ IsNaN(filtCols[k][g][2])
            /\ ~ClaimedMask(k, g) =>
                   /\ filtCols[k][g][1] = Whole(CountColumns(k)[g][1])
                   /\ filtCols[k][g][2] = Whole(CountColumns(k)[g][2])

\* 'all' masks a row whose one count is below the threshold and whose other
\* count is not, and leaves another row of the table alone.
FilterSemanticsWitness ==
    /\ Scored
    /\ filter_type = "all"
    /\ \E k \in ScoreKeys : \E g, h \in DOMAIN libraryTable :
           /\ CountColumns(k)[g][1] < minimum_reads
           /\ CountColumns(k)[g][2] >= minimum_reads
           /\ IsNaN(filtCols[k][g][2])
           /\ ~IsNaN(filtCols[k][h][1])

(***************************************************************************)
(* C3.  Score only where the filter passed: a guide whose row the low-count *)
(* filter masked has a missing phenotype score in that (phenotype,          *)
(* replicate) column under every pseudocount policy, and a missing value in *)
(* the averaged column.                                                     *)
(***************************************************************************)
ScoreOnlyWhereFilterPassed ==
    /\ Scored =>
           \A k \in ScoreKeys : \A g \in DOMAIN libraryTable :
               ClaimedMask(k, g) => IsNaN(phenotypeScoreDict[k][g])
    /\ (pc = "averaged" /\ Cardinality(replicateList) > 1) =>
           \A k \in ScoreKeys : \A g \in DOMAIN libraryTable :
               ClaimedMask(k, g) =>
                   IsNaN(phenotypeTable[<<k[1], AveLabel(replicateList)>>][g])

\* Under 'all values' a guide is masked in one replicate and scored in the
\* other, and its average is missing.
ScoreOnlyWhereFilterPassedWitness ==
    /\ pc = "averaged"
    /\ pseudocount_behavior = "all values"
    /\ pseudocount > 0
    /\ \E g \in DOMAIN libraryTable :
           /\ ClaimedMask(<<"rho", "Rep1">>, g)
           /\ <<"rho", "Rep2">> \in ScoreKeys
           /\ ~IsNaN(phenotypeTable[<<"rho", "Rep2">>][g])
           /\ IsNaN(phenotypeTable[<<"rho", "ave_Rep1_Rep2">>][g])

(***************************************************************************)
(* C4.  Division-by-zero guard: under every pseudocount policy and every    *)
(* pseudocount value, 0 included, no non-missing row reaches the log-ratio  *)
(* with a pseudocounted count1 equal to 0.                                  *)
(***************************************************************************)
NoZeroDenominator ==
    Scored =>
        \A k \in ScoreKeys : \A g \in DOMAIN libraryTable :
            ~IsNaN(countsPseudo[k][g][1]) => countsPseudo[k][g][1] # Whole(0)

\* With a pseudocount above 0 no row has a zero count1.
NoZeroDenominatorPositivePseudocount ==
    (Scored /\ pseudocount > 0) =>
        \A k \in ScoreKeys : \A g \in DOMAIN libraryTable :
            ~IsNaN(countsPseudo[k][g][1]) => countsPseudo[k][g][1] # Whole(0)

(***************************************************************************)
(* C5.  Replicate averaging propagates missing values: the averaged score   *)
(* of a guide is the arithmetic mean of its scores over all replicate       *)
(* columns when all are defined, and is missing as soon as any replicate's  *)
(* score is missing, in the pipeline's averaging and in                     *)
(* averagePhenotypeScores.                                                  *)
(***************************************************************************)
ReplicateScores(phenotype, g) ==
    [i \in DOMAIN RepSeq(replicateList) |->
        phenotypeScoreDict[<<phenotype, RepSeq(replicateList)[i]>>][g]]

\* a is the mean of the scores of q: as many times a as q has scores is their sum.
IsMeanOf(a, q) == FSum([i \in DOMAIN q |-> a]) = FSum(q)

\* Infinite scores (a zero count that no pseudocount replaced, see C4) have no
\* arithmetic mean and are left out of the statement.
ClaimedAverage(a, q) ==
    IF \E i \in DOMAIN q : IsNaN(q[i]) THEN IsNaN(a)
    ELSE (\A i \in DOMAIN q : ~IsInf(q[i])) => (~IsNaN(a) /\ IsMeanOf(a, q))

PipelineAveragePropagatesMissing ==
    (pc = "averaged" /\ Cardinality(replicateList) > 1) =>
        \A ph \in phenotypeList : \A g \in DOMAIN libraryTable :
            ClaimedAverage(phenotypeTable[<<ph, AveLabel(replicateList)>>][g],
                           ReplicateScores(ph, g))

AveragingPropagatesMissing ==
    /\ PipelineAveragePropagatesMissing
    /\ pc = "returned" =>
           \A ph \in phenotypeList : \A g \in DOMAIN libraryTable :
               ClaimedAverage(resultTable[<<ph, AveLabel(replicateList)>>][g],
                              ReplicateScores(ph, g))

\* C6.  Unrecognized pseudogene mode is a soft failure: when
\* generate_pseudogene_dist is neither 'off', 'manual' nor 'auto' and at least
\* one analysis is requested, the run generates no pseudogenes and continues
\* through gene aggregation to completion with the same gene table as with
\* the mode 'off'; it does not abort (it ends in an error only where the run
\* with the mode 'off' does).
GeneTableWithModeOff ==
    GeneTableOf(GeneGroups(phenotypeTable, libraryTable, collapse_to_transcripts),
                NegTable(phenotypeTable, libraryTable), analyses)

RunWithModeOffMayFail ==
    \/ GeneScoresRaise(GeneGroups(phenotypeTable, libraryTable, collapse_to_transcripts),
                       analyses)
    \/ GeneScoresMayRaise(GeneGroups(phenotypeTable, libraryTable,
                                     collapse_to_transcripts),
                          NegTable(phenotypeTable, libraryTable), analyses)
    \/ GenePlotsRequested /\ ~CollapsedTableBound

UnrecognizedModeIsSoftFailure ==
    (/\ generate_pseudogene_dist \notin {"off", "manual", "auto"}
     /\ DOMAIN analyses # {}
     /\ pc \in {"done", "error"}) =>
        IF pc = "done" THEN geneTable = GeneTableWithModeOff
        ELSE RunWithModeOffMayFail

(***************************************************************************)
(* The gene statistics, read from the table applyGeneScoreFunction          *)
(* returned.                                                                *)
(***************************************************************************)
GeneScoreReturned(name) == pc = "returned" /\ analysis = name

\* The column of the group as it was given, and its non-missing scores.
GivenColumn(gene, column) == GroupColumn(groupedPhenotypeTable[gene], column)

ValidPositions(q) == {i \in DOMAIN q : ~IsNaN(q[i])}

\* The mean of the scores of q at the positions S.
MeanAt(q, S) == FDivInt(FSum(ColumnSeq(q, S)), Cardinality(S))

\* v is ranked nth when the non-missing scores of q are ordered by descending
\* absolute value: fewer than nth of them are strictly stronger, and at
\* least nth are as strong.
RankedNth(q, v, nth) ==
    /\ \E i \in ValidPositions(q) : q[i] = v
    /\ Cardinality({i \in ValidPositions(q) : KeyLess(v, q[i])}) < nth
    /\ Cardinality({i \in ValidPositions(q) : ~KeyLess(q[i], v)}) >= nth

\* C7.  calculate_nth: for every gene group and N >= 1 the reported score is
\* the score ranked Nth among the non-missing scores of the group ordered by
\* descending absolute value, and it is missing whenever the group has fewer
\* than N non-missing scores; missing scores neither count towards N nor take
\* part in the ranking.
NthBestAmongValid ==
    (GeneScoreReturned("calculate_nth") /\ analysisParamList[1] >= 1) =>
        \A gene \in DOMAIN groupedPhenotypeTable : \A column \in GeneColumns :
            IF Cardinality(ValidPositions(GivenColumn(gene, column)))
                   < analysisParamList[1]
            THEN IsNaN(result.values[gene][column])
            ELSE RankedNth(GivenColumn(gene, column), result.values[gene][column],
                           analysisParamList[1])

\* C8.  calculate_ave: for every gene group, if N <= 0 the score is the mean
\* of all non-missing scores of the group; if N > 0 it is the mean of the N
\* non-missing scores of largest absolute value (of all of them when fewer
\* than N are non-missing); a group without a non-missing score has a missing
\* score.
StrongestAt(q, S) ==
    /\ S \subseteq ValidPositions(q)
    /\ \A i \in S : \A j \in ValidPositions(q) \ S : ~KeyLess(q[i], q[j])

AverageOfStrongest ==
    GeneScoreReturned("calculate_ave") =>
        \A gene \in DOMAIN groupedPhenotypeTable : \A column \in GeneColumns :
            LET q == GivenColumn(gene, column)
                v == result.values[gene][column]
                n == analysisParamList[1]
            IN  IF ValidPositions(q) = {} THEN IsNaN(v)
                ELSE IF n <= 0 THEN v = MeanAt(q, ValidPositions(q))
                ELSE \E S \in SUBSET ValidPositions(q) :
                         /\ Cardinality(S) = Min2(n, Cardinality(ValidPositions(q)))
                         /\ StrongestAt(q, S)
                         /\ v = MeanAt(q, S)

\* A group with a missing score and more than N > 0 non-missing scores, whose
\* score is not the mean of all of them.
AverageOfStrongestWitness ==
    /\ GeneScoreReturned("calculate_ave")
    /\ analysisParamList[1] > 0
    /\ \E column \in GeneColumns :
           LET q == GivenColumn("geneA", column)
           IN  /\ Cardinality(ValidPositions(q)) > analysisParamList[1]
               /\ ValidPositions(q) # DOMAIN q
               /\ result.values["geneA"][column] # MeanAt(q, ValidPositions(q))

\* C9 as claimed.  The guide count emitted with the calculate_ave score is
\* the number of guide scores used to compute the score, so with N > 0 it
\* never exceeds N.
NumberUsed(q, n) ==
    IF n <= 0 THEN Cardinality(ValidPositions(q))
    ELSE Min2(n, Cardinality(ValidPositions(q)))

TranscriptsCollapsed ==
    /\ pc \in {"collapsed", "done"}
    /\ collapse_to_transcripts
    /\ "calculate_mw" \in DOMAIN analyses

\* The p-value of a transcript of a gene in a (phenotype, replicate).
PValueOf(gene, transcript, tup) ==
    geneTable[<<tup[1], tup[2], PValueKey>>][<<gene, transcript>>]

\* The transcripts of the gene that have a p-value, and the place of a label
\* in the index order.
RankedTranscripts(gene, tup) ==
    {row[2] : row \in {r \in TableRows(geneTable) :
                          r[1] = gene /\ ~IsNaN(PValueOf(gene, r[2], tup))}}

IndexPlace(transcript) ==
    CHOOSE i \in DOMAIN TranscriptIndexOrder : TranscriptIndexOrder[i] = transcript

IsBestTranscript(gene, transcript, tup) ==
    /\ transcript \in RankedTranscripts(gene, tup)
    /\ \A other \in RankedTranscripts(gene, tup) :
           /\ ~PValueLess(PValueOf(gene, other, tup), PValueOf(gene, transcript, tup))
           /\ ~PValueLess(PValueOf(gene, transcript, tup), PValueOf(gene, other, tup))
                  => IndexPlace(transcript) <= IndexPlace(other)

TranscriptCollapse ==
    TranscriptsCollapsed =>
        /\ \A k \in DOMAIN geneTableCollapsed :
               DOMAIN geneTableCollapsed[k] = {row[1] : row \in TableRows(geneTable)}
        /\ \A tup \in TableTuples(geneTable) :
               \A gene \in {row[1] : row \in TableRows(geneTable)} :
                   RankedTranscripts(gene, tup) # {} =>
                       LET chosen == geneTableCollapsed[
                                         <<tup[1], tup[2], <<"transcripts">>>>][gene]
                       IN  /\ IsBestTranscript(gene, chosen, tup)
                           /\ \A k \in DOMAIN geneTable :
                                  <<k[1], k[2]>> = tup =>
                                      /\ k \in DOMAIN geneTableCollapsed
                                      /\ geneTableCollapsed[k][gene]
                                             = geneTable[k][<<gene, chosen>>]

\* A gene whose second transcript has the smaller p-value in one column and
\* whose first transcript is the best one in the other column.
TranscriptCollapseWitness ==
    /\ TranscriptsCollapsed
    /\ DOMAIN phenotypeTable = {<<"rho", "Rep1">>, <<"rho", "Rep2">>}
    /\ RankedTranscripts("geneA", <<"rho", "Rep1">>) = {"P1", "P1P2"}
    /\ PValueLess(PValueOf("geneA", "P1P2", <<"rho", "Rep1">>),
                  PValueOf("geneA", "P1", <<"rho", "Rep1">>))
    /\ geneTableCollapsed[<<"rho", "Rep1", <<"transcripts">>>>]["geneA"] = "P1P2"
    /\ geneTableCollapsed[<<"rho", "Rep2", <<"transcripts">>>>]["geneA"] = "P1"
    /\ RankedTranscripts("geneA", <<"rho", "Rep2">>) = {"P1", "P1P2"}

(***************************************************************************)
(* C12.  Pseudocount policy 'zeros only': for every row of the two count    *)
(* columns, if the minimum of the two counts is exactly 0 the pseudocount   *)
(* is added to both counts of the row, otherwise both counts are left as    *)
(* they are; a row masked as missing stays missing.                         *)
(***************************************************************************)
ZerosOnlyPseudocount ==
    (Scored /\ pseudocount_behavior = "zeros only") =>
        \A k \in ScoreKeys : \A g \in DOMAIN libraryTable :
            LET c1 == CountColumns(k)[g][1]
                c2 == CountColumns(k)[g][2]
            IN  IF IsNaN(filtCols[k][g][1]) /\ IsNaN(filtCols[k][g][2])
                THEN IsNaN(countsPseudo[k][g][1]) /\ IsNaN(countsPseudo[k][g][2])
                ELSE IF c1 = 0 \/ c2 = 0
                THEN countsPseudo[k][g] = <<Whole(c1 + pseudocount), Whole(c2 + pseudocount)>>
                ELSE countsPseudo[k][g] = <<Whole(c1), Whole(c2)>>

\* A row (c, 0) that became (c + 1, 1) beside a row without a zero that was
\* left as it was.
ZerosOnlyPseudocountWitness ==
    /\ Scored
    /\ pseudocount_behavior = "zeros only"
    /\ pseudocount = 1
    /\ \E k \in ScoreKeys : \E g, h \in DOMAIN libraryTable :
           /\ CountColumns(k)[g][1] > 0
           /\ CountColumns(k)[g][2] = 0
           /\ countsPseudo[k][g] = <<Whole(CountColumns(k)[g][1] + 1), Whole(1)>>
           /\ CountColumns(k)[h][1] > 0
           /\ CountColumns(k)[h][2] > 0
           /\ countsPseudo[k][h] = <<Whole(CountColumns(k)[h][1]), Whole(CountColumns(k)[h][2])>>

(***************************************************************************)
(* C13.  Phenotype score formula: for every guide with non-missing          *)
(* pseudocounted counts the score is                                        *)
(* (log2(countsRatio * count2 / count1) - wtLog2E) / growthValue, where     *)
(* countsRatio is the sum of the non-missing pseudocounted counts of        *)
(* condition 1 over that of condition 2, over all guides, and wtLog2E is    *)
(* the median over the negative-control guides only of                      *)
(* log2(countsRatio * count2 / count1), without growth scaling.             *)
(***************************************************************************)
PseudoTotal(k, i) ==
    LET present == {g \in DOMAIN countsPseudo[k] : ~IsNaN(countsPseudo[k][g][i])}
    IN  FSum(ColumnSeq([g \in present |-> countsPseudo[k][g][i]], present))

ClaimedRatio(k) == FDiv(PseudoTotal(k, 1), PseudoTotal(k, 2))

ClaimedLog2e(k, g) ==
    FLog2(FDiv(FMul(ClaimedRatio(k), countsPseudo[k][g][2]), countsPseudo[k][g][1]))

NegativeControlGuides == {g \in DOMAIN libraryTable : libraryTable[g].gene = "negative_control"}

ClaimedWtLog2E(k) ==
    Median(ColumnSeq([g \in NegativeControlGuides |-> ClaimedLog2e(k, g)],
                     NegativeControlGuides))

ScoreFormula ==
    Scored =>
        \A k \in ScoreKeys : \A g \in DOMAIN libraryTable :
            (~IsNaN(countsPseudo[k][g][1]) /\ ~IsNaN(countsPseudo[k][g][2])) =>
                phenotypeScoreDict[k][g]
                    = FDivInt(FAdd(ClaimedLog2e(k, g), FNeg(ClaimedWtLog2E(k))),
                              growthValueDict[k])

\* A gene guide with a score that is a number other than 0, scaled by a growth
\* value of 2 against the median of two negative controls that differ.
ScoreFormulaWitness ==
    /\ Scored
    /\ \E k \in ScoreKeys :
           /\ growthValueDict[k] = 2
           /\ \E g \in DOMAIN libraryTable \ NegativeControlGuides :
                  /\ IsLog(phenotypeScoreDict[k][g])
                  /\ phenotypeScoreDict[k][g] # LogZero
           /\ \E g, h \in NegativeControlGuides :
                  /\ IsLog(ClaimedLog2e(k, g))
                  /\ IsLog(ClaimedLog2e(k, h))
                  /\ ClaimedLog2e(k, g) # ClaimedLog2e(k, h)

(***************************************************************************)
(* C14.  Negative-control neutrality: for every input with at least one     *)
(* negative-control guide passing the filter and any non-zero growth value, *)
(* the median of the phenotype scores of the non-missing negative-control   *)
(* guides in each (phenotype, replicate) column is 0.                       *)
(***************************************************************************)
NegativeControlMedian(k) ==
    Median(ColumnSeq([g \in NegativeControlGuides |-> phenotypeScoreDict[k][g]],
                     NegativeControlGuides))

NegativeControlNeutrality ==
    Scored =>
        \A k \in ScoreKeys :
            (\E g \in NegativeControlGuides : ~IsNaN(filtCols[k][g][1])) =>
                NegativeControlMedian(k) = LogZero

\* Where a negative-control guide has a finite score the median is 0.
NegativeControlNeutralityWhereFinite ==
    Scored =>
        \A k \in ScoreKeys :
            (\E g \in NegativeControlGuides : IsLog(phenotypeScoreDict[k][g])) =>
                NegativeControlMedian(k) = LogZero

(***************************************************************************)
(* C16.  Loader alignment: after loading, every raw-count column has        *)
(* exactly the library's guide ids as its index; a library guide absent     *)
(* from a file has count 0 in that file's column, a guide present has the   *)
(* count of its first record, and an id of the file that is not in the      *)
(* library does not appear.                                                 *)
(***************************************************************************)
RecordsOf(file, id) == {j \in DOMAIN countsFiles[file] : countsFiles[file][j][1] = id}

LoaderAlignment ==
    (pc \in {"loaded", "merged"}) =>
        /\ DOMAIN countsTable = Range(counts_file_list)
        /\ \A t \in DOMAIN countsTable :
               /\ DOMAIN countsTable[t] = Guides
               /\ ExtraId \notin DOMAIN countsTable[t]
               /\ \A g \in Guides :
                      IF RecordsOf(t[3], g) = {}
                      THEN countsTable[t][g] = 0
                      ELSE \E j \in RecordsOf(t[3], g) :
                               /\ \A k \in RecordsOf(t[3], g) : j <= k
                               /\ countsTable[t][g] = countsFiles[t[3]][j][2]

\* A loaded file that lacks a library guide and has an id outside the library.
LoaderAlignmentWitness ==
    /\ pc = "loaded"
    /\ \E t \in DOMAIN countsTable :
           /\ RecordsOf(t[3], ExtraId) # {}
           /\ \E g, h \in Guides :
                  /\ RecordsOf(t[3], g) = {}
                  /\ countsTable[t][g] = 0
                  /\ RecordsOf(t[3], h) # {}
                  /\ countsTable[t][h] > 0

(***************************************************************************)
(* C17.  Duplicate experiment key is fatal: if the configuration lists the  *)
(* same (condition, replicate, counts file) triple twice the run ends with  *)
(* an error and no counts, phenotype or gene table is written.              *)
(***************************************************************************)
ListedTwice ==
    \E i \in DOMAIN counts_file_list : \E j \in DOMAIN counts_file_list :
        i < j /\ counts_file_list[i] = counts_file_list[j]

DuplicateKeyFatal ==
    ListedTwice =>
        /\ pc \in {"start", "error"}
        /\ countsTable = <<>>
        /\ mergedCountsTable = <<>>
        /\ phenotypeTable = <<>>
        /\ geneTable = <<>>

\* The run ended with an error on a list whose first and third triples are the
\* same and whose second is another.
DuplicateKeyFatalWitness ==
    /\ pc = "error"
    /\ Len(counts_file_list) = 3
    /\ counts_file_list[1] = counts_file_list[3]
    /\ counts_file_list[1] # counts_file_list[2]
    /\ countsTable = <<>>

(***************************************************************************)
(* C19.  Pseudogene 'manual' mode: exactly num_pseudogenes synthetic genes  *)
(* are generated, each with exactly pseudogene_size synthetic guides; the   *)
(* score row of every synthetic guide equals, across all (phenotype,        *)
(* replicate) columns at once, the row of one guide of the negative-control *)
(* table, and the same number of library rows is appended with matching     *)
(* ids.                                                                     *)
(***************************************************************************)
PseudogenesGenerated(mode) ==
    /\ Lower(generate_pseudogene_dist) = mode
    /\ DOMAIN analyses # {}
    /\ libraryTableGeneAnalysis # <<>>

SyntheticGuides == DOMAIN libraryTableGeneAnalysis \ DOMAIN libraryTable

SyntheticGenes == {libraryTableGeneAnalysis[g].gene : g \in SyntheticGuides}

RealGenes == {libraryTable[g].gene : g \in DOMAIN libraryTable}

\* The score row of guide g is a row of the negative-control table, the same
\* row in every column.
DrawnFromNegatives(g) ==
    \E i \in DOMAIN negativeTable :
        \A column \in DOMAIN phenotypeTable :
            phenotypeTable[column][g] = negativeTable[i][column]

ManualPseudogenes ==
    PseudogenesGenerated("manual") =>
        /\ Cardinality(SyntheticGenes) = num_pseudogenes
        /\ SyntheticGenes \cap RealGenes = {}
        /\ \A gene \in SyntheticGenes :
               Cardinality({g \in SyntheticGuides :
                               libraryTableGeneAnalysis[g].gene = gene}) = pseudogene_size
        /\ Cardinality(SyntheticGuides) = num_pseudogenes * pseudogene_size
        /\ \A column \in DOMAIN phenotypeTable :
               DOMAIN phenotypeTable[column] = DOMAIN libraryTableGeneAnalysis
        /\ \A g \in SyntheticGuides : DrawnFromNegatives(g)

\* One pseudogene of two guides over a table of two columns whose two
\* negative-control rows differ in both columns, one guide drawn from each.
ManualPseudogenesWitness ==
    /\ PseudogenesGenerated("manual")
    /\ num_pseudogenes = 1
    /\ pseudogene_size = 2
    /\ Cardinality(DOMAIN phenotypeTable) = 2
    /\ Len(negativeTable) = 2
    /\ \A column \in DOMAIN phenotypeTable :
           negativeTable[1][column] # negativeTable[2][column]
    /\ \E g, h \in SyntheticGuides :
           /\ RowOf(phenotypeTable, g) = negativeTable[1]
           /\ RowOf(phenotypeTable, h) = negativeTable[2]

(***************************************************************************)
(* C20.  Pseudogene 'auto' mode: for every real gene (not                   *)
(* 'negative_control') and every transcript group of it, counted after      *)
(* deduplicating the guides by (gene, sequence), exactly one synthetic      *)
(* group is generated with as many guides as the transcript group; none is  *)
(* generated for the negative-control gene, and every synthetic score row   *)
(* equals a row of the negative-control table.                              *)
(***************************************************************************)
DistinctGuides ==
    {g \in DOMAIN libraryTable :
        ~ \E h \in DOMAIN libraryTable :
              /\ h < g
              /\ libraryTable[h].gene = libraryTable[g].gene
              /\ libraryTable[h].sequence = libraryTable[g].sequence}

RealGroups ==
    {<<libraryTable[g].gene, libraryTable[g].transcripts>> :
        g \in {h \in DistinctGuides : libraryTable[h].gene # "negative_control"}}

RealGroupSize(group) ==
    Cardinality({g \in DistinctGuides :
                    <<libraryTable[g].gene, libraryTable[g].transcripts>> = group})

SyntheticGroups ==
    {<<libraryTableGeneAnalysis[g].gene, libraryTableGeneAnalysis[g].transcripts>> :
        g \in SyntheticGuides}

SyntheticGroupSize(group) ==
    Cardinality({g \in SyntheticGuides :
                    <<libraryTableGeneAnalysis[g].gene,
                      libraryTableGeneAnalysis[g].transcripts>> = group})

AutoPseudogenes ==
    PseudogenesGenerated("auto") =>
        /\ SyntheticGenes \cap RealGenes = {}
        /\ \E mirror \in [RealGroups -> SyntheticGroups] :
               /\ \A a, b \in RealGroups : mirror[a] = mirror[b] => a = b
               /\ \A s \in SyntheticGroups : \E a \in RealGroups : mirror[a] = s
               /\ \A a \in RealGroups : SyntheticGroupSize(mirror[a]) = RealGroupSize(a)
               /\ \A a, b \in RealGroups : (a[1] = b[1]) <=> (mirror[a][1] = mirror[b][1])
        /\ \A column \in DOMAIN phenotypeTable :
               DOMAIN phenotypeTable[column] = DOMAIN libraryTableGeneAnalysis
        /\ \A g \in SyntheticGuides : DrawnFromNegatives(g)

\* A library with a guide listed twice, a second gene and a negative control:
\* two synthetic groups of one guide each.
AutoPseudogenesWitness ==
    /\ PseudogenesGenerated("auto")
    /\ Cardinality(DistinctGuides) < Len(libraryTable)
    /\ "negative_control" \in RealGenes
    /\ Cardinality(RealGroups) = 2
    /\ Cardinality(SyntheticGroups) = 2
    /\ \A s \in SyntheticGroups : SyntheticGroupSize(s) = 1

(***************************************************************************)
(* C15.  Filter monotonicity: for every two-column count table and all      *)
(* thresholds T1 < T2, the set of guides masked by filterLowCounts under    *)
(* policy 'any' with T2 is a superset of the set masked under 'any' with    *)
(* T1.                                                                      *)
(***************************************************************************)
MaskedAt(threshold) ==
    {g \in DOMAIN filterResults[threshold].table :
        /\ IsNaN(filterResults[threshold].table[g][1])
        /\ IsNaN(filterResults[threshold].table[g][2])}

FilterMonotonicity ==
    (pc = "call" /\ filter_type = "any") =>
        \A T1 \in DOMAIN filterResults : \A T2 \in DOMAIN filterResults :
            T1 < T2 => MaskedAt(T1) \subseteq MaskedAt(T2)

\* Two thresholds tried on one table under 'any': the lower masks one guide,
\* the higher masks that guide and another.
FilterMonotonicityWitness ==
    /\ pc = "call"
    /\ filter_type = "any"
    /\ \E T1 \in DOMAIN filterResults : \E T2 \in DOMAIN filterResults :
           /\ T1 < T2
           /\ MaskedAt(T1) # {}
           /\ MaskedAt(T1) # MaskedAt(T2)
           /\ MaskedAt(T1) \subseteq MaskedAt(T2)

(***************************************************************************)
(* C18.  Unrecognized names are fatal: filterLowCounts with a filter type   *)
(* outside its accepted set, computePhenotypeScore with a pseudocount       *)
(* behavior outside its accepted set, and applyGeneScoreFunction with an    *)
(* analysis name outside {calculate_ave, calculate_mw, calculate_nth} each  *)
(* raise an error and return no table; none falls back to a default policy. *)
(***************************************************************************)
UnrecognizedNamesFatal ==
    /\ (pc = "call" /\ filter_type \notin {"both", "all", "either", "any"}) =>
           \A t \in DOMAIN filterResults :
               filterResults[t].raised /\ filterResults[t].table = <<>>
    /\ (/\ pc = "call"
        /\ pseudocount_behavior \notin {"default", "zeros only", "all values", "filter out"}
        /\ scoreResult # <<>>) =>
           scoreResult.raised /\ scoreResult.table = <<>>
    /\ (/\ pc \notin {"call", "readLibrary"}
        /\ libraryFileResult = <<>>
        /\ analysis \notin {"calculate_ave", "calculate_mw", "calculate_nth"}) =>
           pc \in {"grouped", "error"} /\ result = <<>>

\* filterLowCounts and computePhenotypeScore were both called with a name
\* they do not know, and both raised.
UnrecognizedNamesFatalWitness ==
    /\ pc = "call"
    /\ filter_type = "bogus"
    /\ pseudocount_behavior = "bogus"
    /\ filterResults # <<>>
    /\ \A t \in DOMAIN filterResults : filterResults[t].raised
    /\ scoreResult # <<>>
    /\ scoreResult.raised

\* applyGeneScoreFunction was called with a name it does not know, and raised.
UnknownAnalysisRaised ==
    /\ pc = "error"
    /\ analysis = "bogus"
    /\ result = <<>>

(***************************************************************************)
(* C21.  Pseudogenes never contaminate real-gene statistics: the group of   *)
(* every real gene holds real guides only and the reference population of   *)
(* calculate_mw holds the real negative-control guides only, so the         *)
(* statistics of every real gene are those of a run with pseudogene         *)
(* generation 'off', whether the mode is 'off', 'manual' or 'auto'.         *)
(***************************************************************************)
RealGuideTable ==
    [column \in DOMAIN phenotypeTable |->
        [g \in DOMAIN libraryTable |-> phenotypeTable[column][g]]]

RealNegativeRows ==
    LET negs == {g \in DOMAIN libraryTable : libraryTable[g].gene = "negative_control"}
    IN  ColumnSeq([g \in negs |-> [column \in DOMAIN phenotypeTable |->
                                      phenotypeTable[column][g]]], negs)

\* The gene table of the same run without pseudogenes.
GeneTableWithoutPseudogenes ==
    GeneTableOf(GeneGroups(RealGuideTable, libraryTable, collapse_to_transcripts),
                RealNegativeRows, analyses)

RealGeneKeys ==
    {IF collapse_to_transcripts
     THEN <<libraryTable[g].gene, libraryTable[g].transcripts>>
     ELSE libraryTable[g].gene :
        g \in {h \in DOMAIN libraryTable : libraryTable[h].gene # "negative_control"}}

NoContamination ==
    (pc = "geneScored" /\ geneTable # <<>>) =>
        /\ negativeTable = RealNegativeRows
        /\ DOMAIN geneTable = DOMAIN GeneTableWithoutPseudogenes
        /\ \A column \in DOMAIN geneTable :
               /\ RealGeneKeys \subseteq DOMAIN geneTable[column]
               /\ \A key \in RealGeneKeys :
                      geneTable[column][key] = GeneTableWithoutPseudogenes[column][key]

\* A gene table with the rows of pseudogenes and, for a real gene, a p-value
\* and an average that are numbers.
NoContaminationWitness ==
    /\ geneTable # <<>>
    /\ Lower(generate_pseudogene_dist) \in {"manual", "auto"}
    /\ SyntheticGuides # {}
    /\ \E column \in DOMAIN geneTable :
           /\ column[3] = <<"Mann-Whitney p-value">>
           /\ DOMAIN geneTable[column] \ RealGeneKeys # {}
           /\ \E key \in RealGeneKeys : ~IsNaN(geneTable[column][key])

(***************************************************************************)
(* C22.  Gene grouping: guides with the same (gene, sequence) are reduced   *)
(* to one before grouping, so no guide is counted twice in a guide count;   *)
(* no group is produced for 'negative_control'; the groups are by gene      *)
(* alone unless transcript collapse is requested, and then by (gene,        *)
(* transcript).                                                             *)
(***************************************************************************)
CountKeys ==
    {<<"sgRNA count_avg">>, <<"average of all phenotypes_sgRNAcount">>,
     <<"sgRNA count_MW">>, <<"sgRNA count_nth best">>}

GuidesOfKey(key) ==
    {g \in DOMAIN libraryTableGeneAnalysis :
        IF collapse_to_transcripts
        THEN key = <<libraryTableGeneAnalysis[g].gene,
                     libraryTableGeneAnalysis[g].transcripts>>
        ELSE key = libraryTableGeneAnalysis[g].gene}

ExpectedGroupKeys ==
    {IF collapse_to_transcripts
     THEN <<libraryTableGeneAnalysis[g].gene, libraryTableGeneAnalysis[g].transcripts>>
     ELSE libraryTableGeneAnalysis[g].gene :
        g \in {h \in DOMAIN libraryTableGeneAnalysis :
                  libraryTableGeneAnalysis[h].gene # "negative_control"}}

GeneGrouping ==
    (geneTable # <<>>) =>
        \A column \in DOMAIN geneTable :
            /\ DOMAIN geneTable[column] = ExpectedGroupKeys
            /\ \A key \in DOMAIN geneTable[column] :
                   /\ key # "negative_control"
                   /\ collapse_to_transcripts => key[1] # "negative_control"
                   /\ column[3] \in CountKeys =>
                          geneTable[column][key] <=
                              Cardinality({libraryTableGeneAnalysis[g].sequence :
                                              g \in GuidesOfKey(key)})

\* A library with a guide listed twice, both rows with a score, a second gene
\* and a negative control, grouped by gene: the count of the gene is 1.
GeneGroupingWitness ==
    /\ geneTable # <<>>
    /\ ~collapse_to_transcripts
    /\ Cardinality(DistinctGuides) < Len(libraryTable)
    /\ "negative_control" \in RealGenes
    /\ \E column \in DOMAIN geneTable :
           /\ column[3] \in CountKeys
           /\ DOMAIN geneTable[column] = {"geneA", "geneB"}
           /\ geneTable[column]["geneA"] = 1
           /\ \A g \in GuidesOfKey("geneA") :
                  ~IsNaN(phenotypeTable[<<column[1], column[2]>>][g])

(***************************************************************************)
(* C23.  Heterogeneous replicate structure: where the conditions do not all *)
(* have the same replicate ids (T0 has only Rep1, 'treated' has Rep1 and    *)
(* Rep2) the pipeline still runs to completion and produces a score column  *)
(* for each (phenotype, replicate) whose two conditions both have a merged  *)
(* count column for that replicate.                                         *)
(***************************************************************************)
MergedReplicates(condition) ==
    {k[2] : k \in {j \in DOMAIN mergedCountsTable : j[1] = condition}}

HeterogeneousReplicates ==
    \E t \in condition_tuples : MergedReplicates(t[2]) # MergedReplicates(t[3])

NamesRecognized ==
    /\ filter_type \in {"both", "all", "either", "any"}
    /\ pseudocount_behavior \in {"default", "zeros only", "all values", "filter out"}

HeterogeneousReplicatesScored ==
    (HeterogeneousReplicates /\ NamesRecognized /\ pc # "merged") =>
        /\ pc # "error"
        /\ \A t \in condition_tuples :
               \A r \in MergedReplicates(t[2]) \cap MergedReplicates(t[3]) :
                   <<t[1], r>> \in DOMAIN phenotypeScoreDict

(***************************************************************************)
(* C28.  The collapsed gene table is never read before it exists: in every  *)
(* run that reaches the volcano-plot step (plots enabled, calculate_ave and *)
(* calculate_mw both requested) the collapsed gene table has been produced  *)
(* earlier in the run, for both values of collapse_to_transcripts, and the  *)
(* run reaches 'Done!'.                                                     *)
(***************************************************************************)
VolcanoPlotsRequested ==
    /\ generatePlots # "off"
    /\ {"calculate_ave", "calculate_mw"} \subseteq DOMAIN analyses

CollapsedTableExistsAtPlots ==
    (pc = "collapsed" /\ VolcanoPlotsRequested) => geneTableCollapsed # <<>>

\* With the transcripts collapsed the table exists at the plots and the run
\* reaches 'Done!'.
CollapsedTableExistsWhereCollapsed ==
    (pc \in {"collapsed", "done"} /\ VolcanoPlotsRequested /\ collapse_to_transcripts) =>
        geneTableCollapsed # <<>>

(***************************************************************************)
(* C25.  Stages do not mutate their inputs: after merging, the raw per-file *)
(* counts table holds exactly the values it held before merging, in the     *)
(* pipeline's group-and-sum merge and in mergeCountsForExperiments, whose   *)
(* returned raw table must still equal the per-file counts even when        *)
(* several files share one experiment key.                                  *)
(***************************************************************************)
PerFileCount(file, id) ==
    IF RecordsOf(file, id) = {} THEN 0
    ELSE countsFiles[file][CHOOSE j \in RecordsOf(file, id) :
                               \A k \in RecordsOf(file, id) : j <= k][2]

RawCountsKept ==
    /\ (pc = "merged") =>
           \A t \in DOMAIN countsTable : \A g \in DOMAIN countsTable[t] :
               countsTable[t][g] = PerFileCount(t[3], g)
    /\ (pc = "exptsMerged") =>
           \A f \in DOMAIN exptCountsTable : \A id \in DOMAIN exptCountsTable[f] :
               exptCountsTable[f][id] = PerFileCount(f, id)

\* The part of the property on the pipeline's own merge.
PipelineMergeKeepsRawCounts ==
    (pc = "merged") =>
        \A t \in DOMAIN countsTable : \A g \in DOMAIN countsTable[t] :
            countsTable[t][g] = PerFileCount(t[3], g)

(***************************************************************************)
(* C24.  Statistical edge cases never crash: where a whole column pair is   *)
(* masked or no negative-control guide has a non-missing score,             *)
(* computePhenotypeScore returns an all-missing score column, and           *)
(* calculate_mw for a gene group that has valid guides returns a missing    *)
(* p-value; in neither case is an error raised.                             *)
(***************************************************************************)
NoValidNegative(column) ==
    \A i \in DOMAIN negativeTable : IsNaN(negativeTable[i][column])

HasValidGuide(gene, column) ==
    \E i \in DOMAIN groupedPhenotypeTable[gene] :
        ~IsNaN(groupedPhenotypeTable[gene][i][column])

MWCalledWithoutNegatives ==
    /\ analysis = "calculate_mw"
    /\ \E gene \in DOMAIN groupedPhenotypeTable : \E column \in GeneColumns :
           NoValidNegative(column) /\ HasValidGuide(gene, column)

EdgeCasesNeverCrash ==
    (pc # "grouped" /\ MWCalledWithoutNegatives) =>
        /\ pc = "returned"
        /\ \A gene \in DOMAIN groupedPhenotypeTable : \A column \in GeneColumns :
               (NoValidNegative(column) /\ HasValidGuide(gene, column)) =>
                   IsNaN(result.values[gene][column])

\* The part of the property on computePhenotypeScore: with every row masked,
\* or with no negative control left with counts, every score is missing and
\* the scoring stage ends without an error.
ScoresMissingWithoutReference ==
    (pc # "merged" /\ NamesRecognized /\ ~HeterogeneousReplicates) =>
        /\ pc # "error"
        /\ \A k \in DOMAIN countsPseudo :
               (\A g \in NegativeControlGuides :
                    IsNaN(countsPseudo[k][g][1]) \/ IsNaN(countsPseudo[k][g][2])) =>
                   \A g \in DOMAIN libraryTable : IsNaN(phenotypeScoreDict[k][g])

(***************************************************************************)
(* C26.  Malformed library FASTA input is fatal: readLibraryFile raises an  *)
(* error for every input in which the id line of some record does not       *)
(* start with '>' or in which an id line is not followed by a sequence line *)
(* (the file ends right after an id line); it never returns a library table *)
(* with a record built from a missing sequence line.                        *)
(***************************************************************************)
RecordStarts == {i \in DOMAIN libraryFastaFile : i % 2 = 1}

MalformedFasta ==
    \E i \in RecordStarts :
        \/ libraryFastaFile[i][1] # ">"
        \/ i = Len(libraryFastaFile)

MalformedFastaIsFatal ==
    (pc \in {"returned", "error"} /\ libraryFileResult # <<>> /\ MalformedFasta) =>
        libraryFileResult.raised

\* The part of the property on the id lines: a record whose id line does not
\* start with '>' makes the call raise.
BadIdLineIsFatal ==
    (/\ pc \in {"returned", "error"}
     /\ libraryFileResult # <<>>
     /\ \E i \in RecordStarts : libraryFastaFile[i][1] # ">") =>
        libraryFileResult.raised

(***************************************************************************)
(* C30.  Early exit writes nothing: a run whose library config raises       *)
(* ValueError, or whose experiment config has parseStatus > 0, never makes  *)
(* the output directory and never writes a file; a run whose sublibrary     *)
(* filter leaves no guide never writes the library table or a later file.   *)
(***************************************************************************)
NoGuideRequested ==
    \A g \in DOMAIN librarySublibraries :
        LowerSublibrary(librarySublibraries[g]) \notin sublibraries

EarlyExitWritesNothing ==
    /\ (libraryConfig = "ValueError" \/ parseStatus > 0) =>
           /\ pc \in {"begin", "exited"}
           /\ directories = {}
           /\ files = <<>>
    /\ (pc # "begin" /\ librarySublibraries # <<>> /\ NoGuideRequested) =>
           /\ pc \in {"parsed", "configured", "exited"}
           /\ files = <<>>

\* A run that returned on the status of parseExptConfig, plots requested.
EarlyExitWritesNothingWitness ==
    /\ pc = "exited"
    /\ libraryConfig = "ok"
    /\ parseStatus > 0
    /\ generatePlots # "off"

\* A run that returned at line 73: its directories are made by then.
SublibraryExitAfterDirectories ==
    /\ pc = "exited"
    /\ NoGuideRequested
    /\ OutputFolder \in directories

(***************************************************************************)
(* C27.  Plot configuration is set once, before use: with plots requested   *)
(* changeDisplayFigureSettings is called once, at the time the directories  *)
(* are made, every plotting call finds the plot directory, the image        *)
(* extension of the run and the interactive display off, and the three      *)
(* settings keep these values to the end of the run; with plots 'off' the   *)
(* settings stay as they were at import and no plotting function is called. *)
(***************************************************************************)
ConfiguredForRun(directory, extension, pylab) ==
    /\ directory = PlotFolder
    /\ extension = generatePlots
    /\ pylab = FALSE

\* The run is over: it returned early, finished, or raised.
RunOver == pc \in {"exited", "done", "error"}

\* The claim as it reads: one call in every run with plots.
PlotSettingsSetOnceInEveryRun ==
    /\ generatePlots = "off" => SettingsAtImport /\ plotCalls = {}
    /\ (generatePlots # "off" /\ RunOver) =>
           /\ settingsCalls = 1
           /\ ConfiguredForRun(plotDirectory, imageExtension, plotWithPylab)
           /\ \A call \in plotCalls :
                  ConfiguredForRun(call.plotDirectory, call.imageExtension,
                                   call.plotWithPylab)

\* As amended: one call in every run with plots whose config files parse,
\* made with the directories; none in a run that returns at lines 36-49.
PlotSettingsSetOnce ==
    /\ settingsCalls \in {0, 1}
    /\ generatePlots = "off" => SettingsAtImport /\ plotCalls = {}
    /\ generatePlots # "off" =>
           /\ settingsCalls = 1 <=> directories # {}
           /\ settingsCalls = 0 => SettingsAtImport /\ plotCalls = {}
           /\ settingsCalls = 1 =>
                  ConfiguredForRun(plotDirectory, imageExtension, plotWithPylab)
           /\ \A call \in plotCalls :
                  ConfiguredForRun(call.plotDirectory, call.imageExtension,
                                   call.plotWithPylab)

\* A finished run with pdf plots: counts of a merged group, phenotype
\* histograms and a volcano plot were drawn.
PlotSettingsSetOnceWitness ==
    /\ pc = "done"
    /\ generatePlots = "pdf"
    /\ {call.function : call \in plotCalls} =
           {"premergedCountsScatterMatrix", "countsHistogram", "countsScatter",
            "phenotypeHistogram", "sgRNAsPassingFilterHist", "volcanoPlot"}

(***************************************************************************)
(* C29.  Written phenotype table holds real guides only: the file of the    *)
(* phenotype table has one row for every guide of the sublibrary-filtered   *)
(* library, a guide masked by the low-count filter included with its score  *)
(* missing, and no pseudogene row, in every pseudogene mode and also once   *)
(* the pseudogene rows are appended to the table.                           *)
(***************************************************************************)
PhenotypeFile == files["_phenotypetable.txt"]

WrittenPhenotypeTableRealOnly ==
    "_phenotypetable.txt" \in DOMAIN files =>
        /\ DOMAIN PhenotypeFile = DOMAIN phenotypeScoreDict
        /\ \A column \in DOMAIN PhenotypeFile :
               /\ DOMAIN PhenotypeFile[column] = DOMAIN libraryTable
               /\ \A g \in DOMAIN libraryTable :
                      column \in ScoreKeys /\ ClaimedMask(column, g) =>
                          IsNaN(PhenotypeFile[column][g])

\* Pseudogene rows were appended to the table after its file was written,
\* and the file has the row of a masked guide.
WrittenPhenotypeTableRealOnlyWitness ==
    /\ pc \in {"pseudogenes", "geneScored", "collapsed", "done"}
    /\ "_phenotypetable.txt" \in DOMAIN files
    /\ SyntheticGuides # {}
    /\ \E column \in DOMAIN phenotypeTable :
           DOMAIN phenotypeTable[column] # DOMAIN libraryTable
    /\ \E g \in DOMAIN libraryTable :
           /\ ClaimedMask(<<"rho", "Rep1">>, g)
           /\ \E h \in DOMAIN libraryTable : ~IsNaN(PhenotypeFile[<<"rho", "Rep1">>][h])
====
